---- MODULE Spec2Model ----
(***************************************************************************)
(* A model of the nexus gateway (EdgeOpslabs/nexus): the policy engine     *)
(* (pkg/policy), the module registry (pkg/registry) and the dispatcher of  *)
(* cmd/nexus/main.go.                                                      *)
(*                                                                         *)
(* Go strings are kept in the state as TLA+ strings and are turned into    *)
(* sequences of one-character strings (Chars) wherever the code looks      *)
(* inside them: glob matching, lower-casing, substring search, trimming.   *)
(***************************************************************************)
EXTENDS Integers, Sequences, FiniteSets, TLC

(***************************************************************************)
(* Bounds of the model.                                                    *)
(***************************************************************************)
\* the largest total number of patterns in the five lists of a PolicyConfig
MaxPatterns == 3

\* the largest number of LoadModules calls
MaxLoads == 2

\* the largest number of tool invocations the server handles
MaxCalls == 2

\* the largest number of bytes a plugin's process writes
MaxOutput == 3

\* the largest number of components of a path given to a log tool
MaxPath == 3

(***************************************************************************)
(* Strings.                                                                *)
(***************************************************************************)
\* the spelling of every string the model uses
Chars ==
    "" :> <<>> @@
    "kubernetes" :> <<"k", "u", "b", "e", "r", "n", "e", "t", "e", "s">> @@
    "prometheus" :> <<"p", "r", "o", "m", "e", "t", "h", "e", "u", "s">> @@
    "plugins" :> <<"p", "l", "u", "g", "i", "n", "s">> @@
    "k8s_list_pods" :> <<"k", "8", "s", "_", "l", "i", "s", "t", "_", "p", "o", "d", "s">> @@
    "k8s_get_logs" :> <<"k", "8", "s", "_", "g", "e", "t", "_", "l", "o", "g", "s">> @@
    "k8s_delete_pod" :> <<"k", "8", "s", "_", "d", "e", "l", "e", "t", "e", "_", "p", "o", "d">> @@
    "prometheus_query_metric" :> <<"p", "r", "o", "m", "e", "t", "h", "e", "u", "s", "_", "q", "u", "e", "r", "y", "_", "m", "e", "t", "r", "i", "c">> @@
    "plugin/demo/echo" :> <<"p", "l", "u", "g", "i", "n", "/", "d", "e", "m", "o", "/", "e", "c", "h", "o">> @@
    "plugin/demo/run" :> <<"p", "l", "u", "g", "i", "n", "/", "d", "e", "m", "o", "/", "r", "u", "n">> @@
    "plugin/demo/Scale_Up" :> <<"p", "l", "u", "g", "i", "n", "/", "d", "e", "m", "o", "/", "S", "c", "a", "l", "e", "_", "U", "p">> @@
    "k*" :> <<"k", "*">> @@
    "p?????s" :> <<"p", "?", "?", "?", "?", "?", "s">> @@
    "[" :> <<"[">> @@
    "kubernetes/k8s_list_pods" :> <<"k", "u", "b", "e", "r", "n", "e", "t", "e", "s", "/", "k", "8", "s", "_", "l", "i", "s", "t", "_", "p", "o", "d", "s">> @@
    "k8s_[d-l]*" :> <<"k", "8", "s", "_", "[", "d", "-", "l", "]", "*">> @@
    "*/prometheus_*" :> <<"*", "/", "p", "r", "o", "m", "e", "t", "h", "e", "u", "s", "_", "*">> @@
    "plugin/*/*" :> <<"p", "l", "u", "g", "i", "n", "/", "*", "/", "*">> @@
    "*" :> <<"*">> @@
    "y\n" :> <<"y", "\n">> @@
    "YES\n" :> <<"Y", "E", "S", "\n">> @@
    " yes \n" :> <<" ", "y", "e", "s", " ", "\n">> @@
    "yes" :> <<"y", "e", "s">> @@
    "n\n" :> <<"n", "\n">> @@
    "yes please\n" :> <<"y", "e", "s", " ", "p", "l", "e", "a", "s", "e", "\n">> @@
    "\n" :> <<"\n">>

\* the characters of the model in ASCII order (the order of a range lo-hi)
Ascii ==
    <<"\n", " ", "*", "-", "/", "8", "?",
      "A", "B", "C", "D", "E", "F", "G", "H", "I", "J", "K", "L", "M",
      "N", "O", "P", "Q", "R", "S", "T", "U", "V", "W", "X", "Y", "Z",
      "[", "\\", "]", "^", "_",
      "a", "b", "c", "d", "e", "f", "g", "h", "i", "j", "k", "l", "m",
      "n", "o", "p", "q", "r", "s", "t", "u", "v", "w", "x", "y", "z">>

Ord(c) == CHOOSE i \in 1..Len(Ascii) : Ascii[i] = c

Upper == <<"A", "B", "C", "D", "E", "F", "G", "H", "I", "J", "K", "L", "M",
           "N", "O", "P", "Q", "R", "S", "T", "U", "V", "W", "X", "Y", "Z">>

Lower == <<"a", "b", "c", "d", "e", "f", "g", "h", "i", "j", "k", "l", "m",
           "n", "o", "p", "q", "r", "s", "t", "u", "v", "w", "x", "y", "z">>

\* strings.ToLower, one character
ToLowerChar(c) ==
    IF \E i \in 1..Len(Upper) : Upper[i] = c
    THEN Lower[CHOOSE i \in 1..Len(Upper) : Upper[i] = c]
    ELSE c

\* strings.ToLower
ToLower(s) == [i \in 1..Len(s) |-> ToLowerChar(s[i])]

\* unicode.IsSpace, on the characters of the model
IsSpace(c) == c \in {" ", "\t", "\n", "\r", "\f"}

\* strings.TrimSpace
TrimSpace(s) ==
    LET kept == { i \in 1..Len(s) : ~IsSpace(s[i]) }
    IN  IF kept = {} THEN <<>>
        ELSE SubSeq(s, CHOOSE i \in kept : \A j \in kept : i <= j,
                       CHOOSE i \in kept : \A j \in kept : j <= i)

\* strings.Contains
Contains(s, sub) ==
    \E i \in 0..(Len(s) - Len(sub)) : SubSeq(s, i + 1, i + Len(sub)) = sub

(***************************************************************************)
(* path.Match: shell-glob matching of a whole name.  '*' matches any run   *)
(* of non-'/' characters, '?' one non-'/' character, '[' a character class *)
(* with ranges and '^' negation, '\\' escapes the next character.  A       *)
(* malformed pattern is an error, and the callers drop the error and keep  *)
(* matched = false.                                                        *)
(***************************************************************************)
BadPattern == [ok |-> FALSE, next |-> 0, items |-> <<>>]

\* getEsc: one (possibly escaped) character of a class, at p[i]
GetEsc(p, i) ==
    IF i > Len(p) \/ p[i] = "-" \/ p[i] = "]"
    THEN [ok |-> FALSE, r |-> "", next |-> 0]
    ELSE LET j == IF p[i] = "\\" THEN i + 1 ELSE i
         IN  IF j > Len(p) \/ j + 1 > Len(p)
             THEN [ok |-> FALSE, r |-> "", next |-> 0]
             ELSE [ok |-> TRUE, r |-> p[j], next |-> j + 1]

RECURSIVE ParseRanges(_, _, _)
\* the ranges of a class, from p[i] on, up to its closing ']'
ParseRanges(p, i, ranges) ==
    IF i <= Len(p) /\ p[i] = "]" /\ Len(ranges) > 0
    THEN [ok |-> TRUE, next |-> i + 1, items |-> ranges]
    ELSE LET lo == GetEsc(p, i)
         IN  IF ~lo.ok THEN BadPattern
             ELSE IF p[lo.next] = "-"
                  THEN LET hi == GetEsc(p, lo.next + 1)
                       IN  IF ~hi.ok THEN BadPattern
                           ELSE ParseRanges(p, hi.next, Append(ranges, <<lo.r, hi.r>>))
                  ELSE ParseRanges(p, lo.next, Append(ranges, <<lo.r, lo.r>>))

RECURSIVE ParsePattern(_, _, _)
\* the pattern as a sequence of items (star, any, lit, class)
ParsePattern(p, i, items) ==
    IF i > Len(p) THEN [ok |-> TRUE, next |-> i, items |-> items]
    ELSE IF p[i] = "*"
    THEN ParsePattern(p, i + 1,
             Append(items, [kind |-> "star", c |-> "", neg |-> FALSE, ranges |-> <<>>]))
    ELSE IF p[i] = "?"
    THEN ParsePattern(p, i + 1,
             Append(items, [kind |-> "any", c |-> "", neg |-> FALSE, ranges |-> <<>>]))
    ELSE IF p[i] = "\\"
    THEN IF i + 1 > Len(p) THEN BadPattern
         ELSE ParsePattern(p, i + 2,
                  Append(items, [kind |-> "lit", c |-> p[i + 1], neg |-> FALSE, ranges |-> <<>>]))
    ELSE IF p[i] = "["
    THEN LET neg == i + 1 <= Len(p) /\ p[i + 1] = "^"
             rs  == ParseRanges(p, IF neg THEN i + 2 ELSE i + 1, <<>>)
         IN  IF ~rs.ok THEN BadPattern
             ELSE ParsePattern(p, rs.next,
                      Append(items, [kind |-> "class", c |-> "", neg |-> neg, ranges |-> rs.items]))
    ELSE ParsePattern(p, i + 1,
             Append(items, [kind |-> "lit", c |-> p[i], neg |-> FALSE, ranges |-> <<>>]))

\* one item that is not a star against one character of the name
ItemMatches(item, ch) ==
    CASE item.kind = "any" -> ch # "/"
      [] item.kind = "lit" -> ch = item.c
      [] item.kind = "class" ->
            (\E k \in 1..Len(item.ranges) :
                Ord(item.ranges[k][1]) <= Ord(ch) /\ Ord(ch) <= Ord(item.ranges[k][2]))
            # item.neg
      [] OTHER -> FALSE

RECURSIVE MatchItems(_, _, _, _)
\* items[i..] match name[j..] entirely
MatchItems(items, i, name, j) ==
    IF i > Len(items) THEN j > Len(name)
    ELSE IF items[i].kind = "star"
    THEN \/ MatchItems(items, i + 1, name, j)
         \/ j <= Len(name) /\ name[j] # "/" /\ MatchItems(items, i, name, j + 1)
    ELSE j <= Len(name) /\ ItemMatches(items[i], name[j])
         /\ MatchItems(items, i + 1, name, j + 1)

\* path.Match(pattern, name) on character sequences: matched, with the error dropped
MatchGlob(pattern, name) ==
    LET parsed == ParsePattern(pattern, 1, <<>>)
    IN  parsed.ok /\ MatchItems(parsed.items, 1, name, 1)

\* the results of MatchGlob on the strings of the model, computed once
MatchTable ==
    [pattern \in {Chars[s] : s \in DOMAIN Chars} |->
        [name \in {Chars[s] : s \in DOMAIN Chars}
                  \cup {Chars[m] \o <<"/">> \o Chars[t] : m, t \in DOMAIN Chars} |->
            MatchGlob(pattern, name)]]

\* matched, _ := path.Match(pattern, name)
PathMatch(pattern, name) == MatchTable[pattern][name]

(***************************************************************************)
(* pkg/policy: the policy engine.                                          *)
(***************************************************************************)
Allow == 0

Deny == 1

Confirm == 2

\* the keywords of isSensitiveTool
sensitive ==
    << <<"d", "e", "l", "e", "t", "e">>, <<"u", "p", "d", "a", "t", "e">>,
       <<"s", "c", "a", "l", "e">>, <<"w", "r", "i", "t", "e">>,
       <<"c", "r", "e", "a", "t", "e">>, <<"a", "p", "p", "l", "y">>,
       <<"p", "a", "t", "c", "h">> >>

IsSensitiveCaseSensitive(tool) ==
    \E k \in 1..Len(sensitive) : Contains(Chars[tool], sensitive[k])

isSensitiveTool(tool) ==
    LET lower == ToLower(Chars[tool])
    IN  \E k \in 1..Len(sensitive) : Contains(lower, sensitive[k])

hasAllowList(cfg) == Len(cfg.AllowModules) > 0 \/ Len(cfg.AllowTools) > 0

matchesAny(patterns, value) ==
    \E i \in 1..Len(patterns) : PathMatch(Chars[patterns[i]], Chars[value])

MatchesAnyToolBareOnly(patterns, module, tool) ==
    \E i \in 1..Len(patterns) : PathMatch(Chars[patterns[i]], Chars[tool])

matchesAnyTool(patterns, module, tool) ==
    LET qualified == Chars[module] \o <<"/">> \o Chars[tool]
    IN  \E i \in 1..Len(patterns) :
            \/ PathMatch(Chars[patterns[i]], Chars[tool])
            \/ PathMatch(Chars[patterns[i]], qualified)

\* Evaluate with the allowlist and confirm rules placed before the deny rule
EvaluateAllowFirst(p, module, tool) ==
    IF p.safeMode /\ isSensitiveTool(tool) THEN Deny
    ELSE IF hasAllowList(p.cfg) /\ (matchesAny(p.cfg.AllowModules, module)
                                    \/ matchesAnyTool(p.cfg.AllowTools, module, tool))
    THEN (IF matchesAnyTool(p.cfg.ConfirmTools, module, tool) THEN Confirm ELSE Allow)
    ELSE IF matchesAny(p.cfg.DenyModules, module) \/ matchesAnyTool(p.cfg.DenyTools, module, tool)
    THEN Deny
    ELSE IF hasAllowList(p.cfg) THEN Deny
    ELSE IF matchesAnyTool(p.cfg.ConfirmTools, module, tool) THEN Confirm
    ELSE Allow

\* Evaluate with the allowlist rule requiring both lists to miss separately
EvaluateAllowModulesOnly(p, module, tool) ==
    IF p.safeMode /\ isSensitiveTool(tool) THEN Deny
    ELSE IF matchesAny(p.cfg.DenyModules, module) \/ matchesAnyTool(p.cfg.DenyTools, module, tool)
    THEN Deny
    ELSE IF Len(p.cfg.AllowModules) > 0 /\ ~matchesAny(p.cfg.AllowModules, module)
            /\ ~matchesAnyTool(p.cfg.AllowTools, module, tool)
    THEN Deny
    ELSE IF matchesAnyTool(p.cfg.ConfirmTools, module, tool) THEN Confirm
    ELSE Allow

\* p.Evaluate(module, tool), p a Policy{cfg, safeMode}
Evaluate(p, module, tool) ==
    IF p.safeMode /\ isSensitiveTool(tool) THEN Deny
    ELSE IF matchesAny(p.cfg.DenyModules, module) \/ matchesAnyTool(p.cfg.DenyTools, module, tool)
    THEN Deny
    ELSE IF hasAllowList(p.cfg) /\ ~matchesAny(p.cfg.AllowModules, module)
            /\ ~matchesAnyTool(p.cfg.AllowTools, module, tool)
    THEN Deny
    ELSE IF matchesAnyTool(p.cfg.ConfirmTools, module, tool) THEN Confirm
    ELSE Allow

\* policy.New(cfg, safeMode)
New(cfg, safeMode) == [cfg |-> cfg, safeMode |-> safeMode]

(***************************************************************************)
(* The inputs of the policy engine: module and tool names, and the glob    *)
(* patterns a policy block may hold.                                       *)
(***************************************************************************)
ModulePatterns == {"kubernetes", "p?????s", "["}

ToolPatterns ==
    {"k8s_list_pods", "kubernetes/k8s_list_pods", "k8s_[d-l]*", "plugin/*/*"}

\* the (module, tool) pairs Evaluate is asked about
ToolPairs ==
    { <<"kubernetes", "k8s_list_pods">>, <<"kubernetes", "k8s_get_logs">>,
      <<"kubernetes", "k8s_delete_pod">>,
      <<"prometheus", "prometheus_query_metric">>,
      <<"plugins", "plugin/demo/echo">>, <<"plugins", "plugin/demo/Scale_Up">>,
      <<"plugins", "plugin/demo/run">> }

\* the lengths of the five pattern lists, at most n patterns in all
LenSplits(n) ==
    { l \in [1..5 -> 0..n] : l[1] + l[2] + l[3] + l[4] + l[5] <= n }

\* every PolicyConfig with at most n patterns
PolicyConfigs(n) ==
    UNION { { [AllowModules |-> am, DenyModules |-> dm, AllowTools |-> at,
               DenyTools |-> dt, ConfirmTools |-> ct] :
                 am \in [1..l[1] -> ModulePatterns], dm \in [1..l[2] -> ModulePatterns],
                 at \in [1..l[3] -> ToolPatterns], dt \in [1..l[4] -> ToolPatterns],
                 ct \in [1..l[5] -> ToolPatterns] } : l \in LenSplits(n) }

NoEval == [module |-> "", tool |-> "", decision |-> -1]

(***************************************************************************)
(* The inputs of the registry: the module names that are registered, the   *)
(* goroutines that call LoadModules, and the configurations they pass.     *)
(***************************************************************************)
\* moduleName of the providers of the model
ModuleNames == {"kubernetes", "plugins", "prometheus"}

\* the names under which a harness registers its providers
HarnessNames == {"kubernetes", "plugins"}

\* the goroutines of a harness that calls LoadModules, besides main
Goroutines == {"g1", "g2"}

Procs == {"main"} \cup Goroutines

\* kubernetes.New(): implements Enabled, and its Init returns nil
K8sModule == [kind |-> "kubernetes", toggleable |-> TRUE, initFails |-> FALSE]

\* plugins.New(): implements Enabled; its Init reads the manifests
PluginsModule == [kind |-> "plugins", toggleable |-> TRUE, initFails |-> FALSE]

\* prometheus.New(): implements Enabled, and its Init returns nil
PrometheusModule == [kind |-> "prometheus", toggleable |-> TRUE, initFails |-> FALSE]

\* the providers of a harness (testModule of registry_test.go): with or without
\* Enabled(cfg), and with an Init that returns nil or an error
TestProviders == [kind : {"test"}, toggleable : BOOLEAN, initFails : BOOLEAN]

\* Modules.Plugins.MaxBytes of DefaultConfig: 256 * 1024
DefaultMaxBytes == 262144

EmptyPolicy ==
    [AllowModules |-> <<>>, DenyModules |-> <<>>, AllowTools |-> <<>>,
     DenyTools |-> <<>>, ConfirmTools |-> <<>>]

\* config.DefaultConfig(), the fields the model reads: safe mode on, no policy,
\* kubernetes the only module enabled, no environment entries for plugins, the
\* local Prometheus
DefaultConfig ==
    [SafeMode |-> TRUE, Policy |-> EmptyPolicy, Enabled |-> {"kubernetes"},
     PluginsEnv |-> <<>>, MaxBytes |-> DefaultMaxBytes,
     PrometheusURL |-> "http://localhost:9090"]

\* a configuration as LoadModules reads it: the modules' Enabled flags
RegistryConfigs ==
    { [DefaultConfig EXCEPT !.Enabled = e] : e \in SUBSET HarnessNames }

\* the zero value of an error
NoErr == [msg |-> "", module |-> "", cause |-> ""]

\* the result of a LoadModules call that has not returned
NoReturn == [isNil |-> TRUE, loaded |-> {}, err |-> NoErr]

IdleCall ==
    [pc |-> "idle", cfg |-> DefaultConfig, loadErr |-> NoErr, visited |-> {}, cur |-> "",
     ranOnce |-> FALSE, waited |-> FALSE, afterFailure |-> FALSE, ret |-> NoReturn]

\* m.cfg of a module before Init: nil
NilCfg == [isNil |-> TRUE, cfg |-> DefaultConfig]

(***************************************************************************)
(* The plugins directory: one entry per subdirectory.                      *)
(***************************************************************************)
EchoTool == [Name |-> "echo", ReadOnly |-> TRUE]

ScaleTool == [Name |-> "Scale_Up", ReadOnly |-> FALSE]

RunTool == [Name |-> "run", ReadOnly |-> FALSE]

\* a subdirectory without a readable manifest file
NoManifestDir ==
    [dir |-> "empty", manifest |-> "none", metaName |-> "", command |-> "",
     env |-> <<>>, tools |-> <<>>]

\* the subdirectory demo with a manifest named demo: its command, its
\* environment variables and its tools
DemoDir(command, env, tools) ==
    [dir |-> "demo", manifest |-> "ok", metaName |-> "demo", command |-> command,
     env |-> env, tools |-> tools]

\* the plugins directories of the model: empty; one plugin with three tools; one
\* plugin, named after its directory, that declares a tool twice; one whose
\* manifest does not parse; two manifests of one name that declare the same
\* tool; a directory without manifest next to a plugin that sets a variable; a
\* plugin without command; the plugin demo in the directory a; a plugin whose
\* command is an absolute path
PluginDisks ==
    { <<>>,
      << DemoDir("run.sh", <<>>, <<EchoTool, ScaleTool, RunTool>>) >>,
      << [DemoDir("run.sh", <<>>, <<EchoTool, EchoTool>>) EXCEPT !.metaName = ""] >>,
      << [NoManifestDir EXCEPT !.dir = "demo", !.manifest = "unparsable"] >>,
      << [DemoDir("run.sh", <<>>, <<EchoTool>>) EXCEPT !.dir = "a"],
         [DemoDir("run.sh", <<>>, <<EchoTool>>) EXCEPT !.dir = "b"] >>,
      << NoManifestDir, DemoDir("run.sh", "MODE" :> "m", <<EchoTool, RunTool>>) >>,
      << DemoDir("", <<>>, <<EchoTool>>) >>,
      << [DemoDir("run.sh", <<>>, <<EchoTool>>) EXCEPT !.dir = "a"] >>,
      << DemoDir("/bin/tool", <<>>, <<EchoTool>>) >> }

RECURSIVE LoadManifestsFrom(_, _, _)
\* the loop of LoadManifests over the directory entries
LoadManifestsFrom(entries, i, manifests) ==
    IF i > Len(entries) THEN [err |-> FALSE, manifests |-> manifests]
    ELSE IF entries[i].manifest = "none"
    THEN LoadManifestsFrom(entries, i + 1, manifests)
    ELSE IF entries[i].manifest = "unparsable"
    THEN [err |-> TRUE, manifests |-> <<>>]
    ELSE LoadManifestsFrom(entries, i + 1,
             Append(manifests,
                    [Name |-> IF entries[i].metaName = "" THEN entries[i].dir
                              ELSE entries[i].metaName,
                     Command |-> entries[i].command, Env |-> entries[i].env,
                     Tools |-> entries[i].tools]))

\* pluginapi.LoadManifests(dir)
LoadManifests(entries) == LoadManifestsFrom(entries, 1, <<>>)

\* pluginToolName(pluginName, toolName)
pluginToolName(pluginName, toolName) == "plugin/" \o pluginName \o "/" \o toolName

RECURSIVE BuildToolsOverwrites(_, _, _, _)
\* BuildTools without the check for a name that is already in m.tools
BuildToolsOverwrites(manifests, i, j, tools) ==
    IF i > Len(manifests) THEN [ok |-> TRUE, tools |-> tools, err |-> ""]
    ELSE IF j > Len(manifests[i].Tools)
    THEN BuildToolsOverwrites(manifests, i + 1, 1, tools)
    ELSE LET fullName == pluginToolName(manifests[i].Name, manifests[i].Tools[j].Name)
         IN  BuildToolsOverwrites(manifests, i, j + 1,
                 (fullName :> [manifest |-> manifests[i],
                               tool |-> manifests[i].Tools[j]]) @@ tools)

RECURSIVE BuildTools(_, _, _, _)
\* the loops of plugins Init that fill m.tools: manifest i, tool j
BuildTools(manifests, i, j, tools) ==
    IF i > Len(manifests) THEN [ok |-> TRUE, tools |-> tools, err |-> ""]
    ELSE IF j > Len(manifests[i].Tools) THEN BuildTools(manifests, i + 1, 1, tools)
    ELSE LET fullName == pluginToolName(manifests[i].Name, manifests[i].Tools[j].Name)
         IN  IF fullName \in DOMAIN tools
             THEN [ok |-> FALSE, tools |-> tools,
                   err |-> "duplicate plugin tool name: " \o fullName]
             ELSE BuildTools(manifests, i, j + 1,
                      (fullName :> [manifest |-> manifests[i],
                                    tool |-> manifests[i].Tools[j]]) @@ tools)

\* plugins Module.Init after m.cfg = cfg: whether it returns nil, its error, and
\* the m.tools it leaves
PluginsInit(cfg, entries, tools) ==
    IF "plugins" \notin cfg.Enabled THEN [ok |-> TRUE, tools |-> tools, err |-> ""]
    ELSE LET loaded == LoadManifests(entries)
         IN  IF loaded.err THEN [ok |-> TRUE, tools |-> tools, err |-> ""]
             ELSE BuildTools(loaded.manifests, 1, 1, tools)

(***************************************************************************)
(* pkg/modules/logs: the paths a log tool is given, the file system they   *)
(* name, and the check of a path against allow_paths.                      *)
(***************************************************************************)
\* the names of the files, directories and links of the model
PathNames == {"l", "l2", "e", "a", "o", "i", ".."}

\* the spelling of a name
NameChars ==
    ("l" :> <<"l">>) @@ ("l2" :> <<"l", "2">>) @@ ("e" :> <<"e">>) @@ ("a" :> <<"a">>) @@
    ("o" :> <<"o">>) @@ ("i" :> <<"i">>) @@ (".." :> <<".", ".">>)

\* a path as a caller or allow_paths spells it: absolute or relative, and its
\* components
PathsUpTo(n) ==
    { [abs |-> b, comps |-> c] : b \in BOOLEAN, c \in UNION { [1..k -> PathNames] : k \in 0..n } }

\* the file system, by the components of an absolute path: the directories /l,
\* /l2 and /e with a file a each, the link /l/o to /e/a and the link /i to /l
LogFS ==
    (<<>> :> [kind |-> "dir", target |-> <<>>]) @@
    (<<"l">> :> [kind |-> "dir", target |-> <<>>]) @@
    (<<"l", "a">> :> [kind |-> "file", target |-> <<>>]) @@
    (<<"l", "o">> :> [kind |-> "link", target |-> <<"e", "a">>]) @@
    (<<"l2">> :> [kind |-> "dir", target |-> <<>>]) @@
    (<<"l2", "a">> :> [kind |-> "file", target |-> <<>>]) @@
    (<<"e">> :> [kind |-> "dir", target |-> <<>>]) @@
    (<<"e", "a">> :> [kind |-> "file", target |-> <<>>]) @@
    (<<"i">> :> [kind |-> "link", target |-> <<"l">>])

\* the values of Modules.Logs.AllowPaths of the model: none; /l; the link /i;
\* a path that does not exist before /l2; ../l, relative; the root
AllowPathLists ==
    { <<>>,
      << [abs |-> TRUE, comps |-> <<"l">>] >>,
      << [abs |-> TRUE, comps |-> <<"i">>] >>,
      << [abs |-> TRUE, comps |-> <<"l", "e">>], [abs |-> TRUE, comps |-> <<"l2">>] >>,
      << [abs |-> FALSE, comps |-> <<"..", "l">>] >>,
      << [abs |-> TRUE, comps |-> <<>>] >> }

RECURSIVE CleanFrom(_, _)
\* filepath.Clean of a rooted path: .. removes the component before it, and is
\* dropped at the root
CleanFrom(done, rest) ==
    IF rest = <<>> THEN done
    ELSE IF Head(rest) = ".."
    THEN CleanFrom(IF done = <<>> THEN <<>> ELSE SubSeq(done, 1, Len(done) - 1), Tail(rest))
    ELSE CleanFrom(Append(done, Head(rest)), Tail(rest))

\* filepath.Abs(path): the components of the cleaned absolute path, /e being
\* the working directory of the nexus process
Abs(path) ==
    IF path.abs THEN CleanFrom(<<>>, path.comps)
    ELSE CleanFrom(<<>>, <<"e">> \o path.comps)

RECURSIVE WalkSymlinks(_, _)
\* the walk of filepath.EvalSymlinks: dest is resolved, rest is still to be walked
WalkSymlinks(dest, rest) ==
    IF rest = <<>> THEN [ok |-> TRUE, path |-> dest]
    ELSE LET next == Append(dest, Head(rest))
         IN  IF next \notin DOMAIN LogFS THEN [ok |-> FALSE, path |-> <<>>]
             ELSE IF LogFS[next].kind = "link"
             THEN WalkSymlinks(<<>>, LogFS[next].target \o Tail(rest))
             ELSE IF LogFS[next].kind = "file" /\ Tail(rest) # <<>>
             THEN [ok |-> FALSE, path |-> <<>>]
             ELSE WalkSymlinks(next, Tail(rest))

\* filepath.EvalSymlinks(abs)
EvalSymlinks(abs) == WalkSymlinks(<<>>, abs)

RECURSIVE JoinFrom(_, _)
JoinFrom(comps, i) ==
    IF i > Len(comps) THEN <<>>
    ELSE (IF i = 1 THEN <<>> ELSE <<"/">>) \o NameChars[comps[i]] \o JoinFrom(comps, i + 1)

\* the string of a cleaned absolute path: "/" for the root, and else /c1/c2...
PathString(comps) == <<"/">> \o JoinFrom(comps, 1)

\* strings.HasPrefix(s, prefix)
HasPrefix(s, prefix) == Len(prefix) <= Len(s) /\ SubSeq(s, 1, Len(prefix)) = prefix

\* the test of validatePath without the path separator after the root
UnderRootNoSeparator(resolved, rootResolved) ==
    HasPrefix(resolved, rootResolved) \/ resolved = rootResolved

\* strings.HasPrefix(resolved, rootResolved+string(os.PathSeparator)) ||
\* resolved == rootResolved
UnderRoot(resolved, rootResolved) ==
    HasPrefix(resolved, rootResolved \o <<"/">>) \/ resolved = rootResolved

\* m.validatePath(input): its error ("" for nil) and the resolved path
validatePath(allowPaths, input) ==
    IF Len(allowPaths) = 0
    THEN [err |-> "log access denied: allow_paths is empty", path |-> <<>>]
    ELSE LET resolved == EvalSymlinks(Abs(input))
         IN  IF ~resolved.ok THEN [err |-> "invalid path", path |-> <<>>]
             ELSE IF \E i \in DOMAIN allowPaths :
                         LET rootResolved == EvalSymlinks(Abs(allowPaths[i]))
                         IN  /\ rootResolved.ok
                             /\ UnderRoot(PathString(resolved.path),
                                          PathString(rootResolved.path))
             THEN [err |-> "", path |-> resolved.path]
             ELSE [err |-> "log path not allowed", path |-> <<>>]

\* readTail(path, ...): os.Stat and os.Open of the path; its error, "" for nil
readTail(path) ==
    IF path \notin DOMAIN LogFS THEN "no such file or directory"
    ELSE IF LogFS[path].kind = "dir" THEN "path is a directory"
    ELSE ""

\* no log tool has been called
NoLogsCall ==
    [pc |-> "idle", tool |-> "", path |-> [abs |-> FALSE, comps |-> <<>>], query |-> "",
     allowPaths |-> <<>>, read |-> [ok |-> FALSE, path |-> <<>>],
     isError |-> FALSE, text |-> ""]

\* handleTail and handleGrep from the path argument on (handleGrep after its
\* test of the query): what is returned, and the file that was read
handleLog(call) ==
    IF call.path.comps = <<>> /\ ~call.path.abs
    THEN [call EXCEPT !.pc = "done", !.isError = TRUE, !.text = "path is required"]
    ELSE IF call.tool = "logs_grep" /\ call.query = ""
    THEN [call EXCEPT !.pc = "done", !.isError = TRUE, !.text = "query is required"]
    ELSE LET valid == validatePath(call.allowPaths, call.path)
         IN  IF valid.err # ""
             THEN [call EXCEPT !.pc = "done", !.isError = TRUE, !.text = valid.err]
             ELSE IF readTail(valid.path) # ""
             THEN [call EXCEPT !.pc = "done", !.isError = TRUE,
                               !.text = "failed to read logs"]
             ELSE [call EXCEPT !.pc = "done", !.text = "content",
                               !.read = [ok |-> TRUE, path |-> valid.path]]

(***************************************************************************)
(* nexus install <path-or-url>: plugins.Install.  A path is the sequence   *)
(* of its characters.                                                      *)
(***************************************************************************)
DotZip == <<".", "z", "i", "p">>

DotGz == <<".", "g", "z">>

DotTarGz == <<".", "t", "a", "r">> \o DotGz

DotTgz == <<".", "t", "g", "z">>

\* what nexus install is run with: the source, a local path or a URL;
\* --plugins-dir; what os.Stat finds at a local source; what http.Get of a URL
\* meets; the name os.CreateTemp("", "nexus-plugin-*") gives the downloaded file
InstallRuns ==
    LET http == <<"h", "t", "t", "p", ":", "/", "/", "h", "/">>
        https == <<"h", "t", "t", "p", "s", ":", "/", "/", "h", "/">>
    IN  [source : { <<>>, <<"p">>, <<"p">> \o DotZip, <<"p">> \o DotTarGz,
                    <<"p">> \o DotTgz, <<"p">> \o DotGz, <<"p", ".", "Z", "I", "P">>,
                    <<"d", "/", "p">> \o DotZip,
                    http \o <<"p">> \o DotZip, https \o <<"p">> \o DotTarGz,
                    http \o <<"p">> \o DotTgz, https \o <<"p">> },
         destDir : { <<>>, <<"p", "l", "u", "g", "i", "n", "s">> },
         kind : {"dir", "file", "missing"},
         dl : {"unreachable", "status404", "ok"},
         tmp : { <<"/", "t", "m", "p", "/", "n", "e", "x", "u", "s", "-", "p", "l", "u",
                   "g", "i", "n", "-", d>> : d \in {"1", "2"} }]

\* strings.HasSuffix
HasSuffix(s, suffix) ==
    Len(suffix) <= Len(s) /\ SubSeq(s, Len(s) - Len(suffix) + 1, Len(s)) = suffix

\* the index of the last path separator of the path, 0 when it has none
LastSeparator(path) ==
    LET seps == { i \in 1..Len(path) : path[i] = "/" }
    IN  IF seps = {} THEN 0 ELSE CHOOSE i \in seps : \A j \in seps : j <= i

\* filepath.Base, of a path that does not end with a separator
Base(path) ==
    IF path = <<>> THEN <<".">> ELSE SubSeq(path, LastSeparator(path) + 1, Len(path))

\* filepath.Ext: from the last dot of the last element of the path
Ext(path) ==
    LET dots == { i \in (LastSeparator(path) + 1)..Len(path) : path[i] = "." }
    IN  IF dots = {} THEN <<>>
        ELSE SubSeq(path, CHOOSE i \in dots : \A j \in dots : j <= i, Len(path))

\* trimExt
trimExt(name) == SubSeq(name, 1, Len(name) - Len(Ext(name)))

\* resolveSource, and the download of a URL to the temporary file the body of
\* the response is copied to
resolveSource(source, dl, tmp) ==
    IF \/ HasPrefix(source, <<"h", "t", "t", "p", ":", "/", "/">>)
       \/ HasPrefix(source, <<"h", "t", "t", "p", "s", ":", "/", "/">>)
    THEN IF dl = "unreachable" THEN [localPath |-> <<>>, err |-> "get failed"]
         ELSE IF dl = "status404" THEN [localPath |-> <<>>, err |-> "download failed: 404"]
         ELSE [localPath |-> tmp, err |-> ""]
    ELSE [localPath |-> source, err |-> ""]

NoInstall ==
    [pc |-> "none", source |-> <<>>, destDir |-> <<>>, kind |-> "missing",
     localPath |-> <<>>, action |-> "none", target |-> <<>>, err |-> ""]

\* Install(source, destDir), where kind is what os.Stat finds at a local source;
\* a target is filepath.Join of the clean destDir and a name
Install(source, destDir, kind, dl, tmp) ==
    LET start == [NoInstall EXCEPT !.pc = "done", !.source = source,
                                   !.destDir = destDir, !.kind = kind]
        resolved == resolveSource(source, dl, tmp)
        localPath == resolved.localPath
        found == IF localPath = source THEN kind ELSE "file"
        at == [start EXCEPT !.localPath = localPath]
        ext == ToLower(Ext(localPath))
    IN  IF source = <<>> THEN [start EXCEPT !.err = "source is required"]
        ELSE IF destDir = <<>> THEN [start EXCEPT !.err = "plugins directory is required"]
        ELSE IF resolved.err # "" THEN [start EXCEPT !.err = resolved.err]
        ELSE IF found = "missing" THEN [at EXCEPT !.err = "no such file or directory"]
        ELSE IF found = "dir"
        THEN [at EXCEPT !.action = "copyDir", !.target = destDir \o <<"/">> \o Base(localPath)]
        ELSE IF ext = DotZip
        THEN [at EXCEPT !.action = "unzip",
                        !.target = destDir \o <<"/">> \o trimExt(Base(localPath))]
        ELSE IF /\ ext = DotGz
                /\ HasSuffix(localPath, DotTarGz) \/ HasSuffix(localPath, DotTgz)
        THEN [at EXCEPT !.action = "untarGz",
                        !.target =
                            destDir \o <<"/">> \o trimExt(trimExt(Base(localPath)))]
        ELSE [at EXCEPT !.action = "copyFile", !.target = destDir \o <<"/">> \o Base(localPath)]

VARIABLES
    toolPolicy,     \* the Policy{cfg, safeMode} built by policy.New
    ev,             \* the last call of Evaluate: its arguments and its result
    modules,        \* registry.modules: module name -> provider
    loadOnce,       \* registry.loadOnce: "fresh", "running" or "done"
    lm,             \* the LoadModules call of each goroutine
    initRuns,       \* how often Init of each module was invoked
    initFailed,     \* the modules whose Init returned an error
    loads,          \* the number of LoadModules calls made
    loadCfgs,       \* the configurations passed to LoadModules so far
    loadFailed,     \* some LoadModules call has returned an error
    crashed,        \* the process has panicked
    mu,             \* registry.mu: the goroutine that holds mu.Lock in Register
    modCfg,         \* m.cfg of each module
    pluginTools,    \* m.tools of the plugins module
    disk,           \* the entries of the plugins directory
    logsCall,       \* the call of a log tool: its arguments and what it did
    mainPc,         \* where main is: "init", "loadModules", "serving", "exited" or
                    \* "installed"
    mainCfg,        \* cfg of main, as LoadConfig and --safe-mode leave it
    configErr,      \* err of main after LoadConfig, "" for nil
    safeMode,       \* *safeMode of main: the --safe-mode flag
    install,        \* nexus install: its arguments and what plugins.Install did
    sse,            \* --transport is sse
    toolSummaries,  \* toolSummaries of main: the inventory /tools serves
    handlers,       \* the (module, tool) of every handler given to s.AddTool
    calls,          \* the tool invocation each worker of the server handles
    callsMade,      \* the number of tool invocations received
    toolsResponse   \* the last response to GET /tools

polVars == <<toolPolicy, ev>>

regVars ==
    <<modules, loadOnce, lm, initRuns, initFailed, loads, loadCfgs, loadFailed, crashed,
      mu>>

modVars == <<modCfg, pluginTools, disk, logsCall>>

mainVars == <<mainPc, mainCfg, configErr, safeMode, sse, install>>

dispVars == <<toolSummaries, handlers, calls, callsMade, toolsResponse>>

vars ==
    <<toolPolicy, ev, modules, loadOnce, lm, initRuns, initFailed, loads, loadCfgs,
      loadFailed, crashed, mu, modCfg, pluginTools, disk, logsCall, mainPc, mainCfg,
      configErr, safeMode, sse, install, toolSummaries, handlers, calls, callsMade, toolsResponse>>

\* what LoadModules, and a Register that runs from its Lock to its Unlock in one
\* step, leave as it is
restVars == <<polVars, mainVars, dispVars, mu>>

\* mu is not locked
NoHolder ==
    [holder |-> "", name |-> "",
     module |-> [kind |-> "", toggleable |-> FALSE, initFails |-> FALSE]]

\* the state of the registry package before any init() has run
RegistryFresh ==
    /\ modules = <<>>
    /\ loadOnce = "fresh"
    /\ lm = [p \in Procs |-> IdleCall]
    /\ initRuns = [n \in ModuleNames |-> 0]
    /\ initFailed = {}
    /\ loads = 0
    /\ loadCfgs = {}
    /\ loadFailed = FALSE
    /\ crashed = FALSE
    /\ mu = NoHolder

\* the modules as New() returns them
ModulesFresh ==
    /\ modCfg = [n \in ModuleNames |-> NilCfg]
    /\ pluginTools = <<>>
    /\ logsCall = NoLogsCall

\* the workers of the MCP server that run the tool handlers
Workers == {"w1"}

\* the zero value of a *mcp.CallToolResult, error pair
NoResult ==
    [isNil |-> TRUE, isError |-> FALSE, text |-> "", detail |-> "", body |-> <<>>,
     goErr |-> FALSE]

\* a worker that handles no invocation
IdleWorker ==
    [pc |-> "idle", module |-> "", tool |-> "", decision |-> -1, asked |-> FALSE,
     ttyOk |-> FALSE, line |-> "", invoked |-> FALSE, result |-> NoResult,
     cancelled |-> FALSE, child |-> "none", childEnv |-> <<>>, exitCode |-> 0,
     output |-> <<>>, query |-> "", backend |-> "", cmdPath |-> ""]

\* main has not started: only the init() functions of the packages run
MainFresh ==
    /\ mainPc = "init"
    /\ mainCfg = DefaultConfig
    /\ configErr = ""
    /\ safeMode = FALSE
    /\ sse = FALSE
    /\ install = NoInstall

\* no tool is registered with the server and no request has come
DispatcherFresh ==
    /\ toolSummaries = {}
    /\ handlers = {}
    /\ calls = [w \in Workers |-> IdleWorker]
    /\ callsMade = 0
    /\ toolsResponse = [served |-> FALSE, Tools |-> {}]

(***************************************************************************)
(* pkg/registry.                                                           *)
(***************************************************************************)
\* Disabled with the negation of Enabled(cfg) left out
DisabledInverted(name, cfg) == modules[name].toggleable /\ name \in cfg.Enabled

\* toggleable, ok := module.(interface{ Enabled }); ok && !toggleable.Enabled(cfg)
Disabled(name, cfg) == modules[name].toggleable /\ name \notin cfg.Enabled

\* Register that replaces the provider of a name that is present
RegisterOverwrites(name, module) ==
    /\ ~crashed
    /\ loads = 0
    /\ mu.holder = ""
    /\ modules' = (name :> module) @@ modules
    /\ mainPc = "init"
    /\ UNCHANGED <<loadOnce, lm, initRuns, initFailed, loads, loadCfgs, loadFailed, crashed>>
    /\ UNCHANGED <<modVars, restVars>>

\* Register(name, module); the init() functions call it before main starts
Register(name, module) ==
    /\ ~crashed
    /\ loads = 0
    /\ mu.holder = ""
    /\ IF name \in DOMAIN modules
       THEN crashed' = TRUE /\ UNCHANGED modules
       ELSE modules' = (name :> module) @@ modules /\ UNCHANGED crashed
    /\ mainPc = "init"
    /\ UNCHANGED <<loadOnce, lm, initRuns, initFailed, loads, loadCfgs, loadFailed>>
    /\ UNCHANGED <<modVars, restVars>>

\* LoadModules(cfg) is entered: var loadErr error
LoadModulesCall(p, cfg) ==
    /\ ~crashed
    /\ lm[p].pc \in {"idle", "returned"}
    /\ loads < MaxLoads
    /\ lm' = [lm EXCEPT ![p] = [IdleCall EXCEPT !.pc = "once", !.cfg = cfg,
                                                !.afterFailure = loadFailed]]
    /\ loads' = loads + 1
    /\ loadCfgs' = loadCfgs \cup {cfg}
    /\ UNCHANGED <<modules, loadOnce, initRuns, initFailed, loadFailed, crashed>>
    /\ UNCHANGED <<modVars, restVars>>

\* OnceEnter without the once barrier: f starts again when it has already run
OnceEnterEveryCall(p) ==
    /\ lm[p].pc = "once"
    /\ loadOnce \in {"fresh", "done"}
    /\ loadOnce' = "running"
    /\ lm' = [lm EXCEPT ![p].pc = "range", ![p].ranOnce = TRUE]
    /\ UNCHANGED <<modules, initRuns, initFailed, loads, loadCfgs, loadFailed, crashed>>
    /\ UNCHANGED <<modVars, restVars>>

\* loadOnce.Do(f) by the first caller: f starts
OnceEnter(p) ==
    /\ lm[p].pc = "once"
    /\ loadOnce = "fresh"
    /\ loadOnce' = "running"
    /\ lm' = [lm EXCEPT ![p].pc = "range", ![p].ranOnce = TRUE]
    /\ UNCHANGED <<modules, initRuns, initFailed, loads, loadCfgs, loadFailed, crashed>>
    /\ UNCHANGED <<modVars, restVars>>

\* OnceWait in which the caller goes on to the rest of LoadModules
OnceDoesNotWait(p) ==
    /\ lm[p].pc = "once"
    /\ loadOnce = "running"
    /\ lm' = [lm EXCEPT ![p].pc = "check", ![p].waited = TRUE]
    /\ UNCHANGED <<modules, loadOnce, initRuns, initFailed, loads, loadCfgs, loadFailed,
                   crashed>>
    /\ UNCHANGED <<modVars, restVars>>

\* loadOnce.Do(f) while f runs in another goroutine: the caller blocks
OnceWait(p) ==
    /\ lm[p].pc = "once"
    /\ loadOnce = "running"
    /\ lm' = [lm EXCEPT ![p].pc = "blocked", ![p].waited = TRUE]
    /\ UNCHANGED <<modules, loadOnce, initRuns, initFailed, loads, loadCfgs, loadFailed,
                   crashed>>
    /\ UNCHANGED <<modVars, restVars>>

\* loadOnce.Do(f) after f has returned: nothing is run
OncePass(p) ==
    /\ lm[p].pc \in {"once", "blocked"}
    /\ loadOnce = "done"
    /\ lm' = [lm EXCEPT ![p].pc = "check"]
    /\ UNCHANGED <<modules, loadOnce, initRuns, initFailed, loads, loadCfgs, loadFailed,
                   crashed>>
    /\ UNCHANGED <<modVars, restVars>>

\* one iteration of `for name, module := range modules` in f, up to the entry of
\* module.Init(cfg), which stores m.cfg = cfg; the order of a map range is not fixed
RangeModules(p) ==
    /\ lm[p].pc = "range"
    /\ \E name \in DOMAIN modules \ lm[p].visited :
          IF Disabled(name, lm[p].cfg)
          THEN /\ lm' = [lm EXCEPT ![p].visited = @ \cup {name}]
               /\ UNCHANGED <<initRuns, modCfg>>
          ELSE /\ lm' = [lm EXCEPT ![p].pc = "init", ![p].cur = name]
               /\ initRuns' = [initRuns EXCEPT ![name] = @ + 1]
               /\ modCfg' = [modCfg EXCEPT ![name] = [isNil |-> FALSE, cfg |-> lm[p].cfg]]
    /\ UNCHANGED <<modules, loadOnce, initFailed, loads, loadCfgs, loadFailed, crashed>>
    /\ UNCHANGED <<pluginTools, disk, logsCall, restVars>>

\* the rest of module.Init(cfg) of the provider registered as name: whether it
\* returns nil, and the tool table it leaves in the plugins module
InitOutcome(name, cfg) ==
    CASE modules[name].kind = "plugins" -> PluginsInit(cfg, disk, pluginTools)
      [] modules[name].kind \in {"kubernetes", "prometheus"} ->
             [ok |-> TRUE, tools |-> pluginTools, err |-> ""]
      [] OTHER -> [ok |-> ~modules[name].initFails, tools |-> pluginTools,
                   err |-> IF modules[name].initFails THEN "init failed" ELSE ""]

\* InitReturns in which f carries on with the range after a failed Init
InitReturnsKeepGoing(p) ==
    LET out == InitOutcome(lm[p].cur, lm[p].cfg)
    IN  /\ lm[p].pc = "init"
        /\ lm' = [lm EXCEPT ![p].pc = "range", ![p].visited = @ \cup {lm[p].cur},
                            ![p].cur = "",
                            ![p].loadErr = IF out.ok THEN @
                                           ELSE [msg |-> "failed to init module",
                                                 module |-> lm[p].cur,
                                                 cause |-> out.err]]
        /\ initFailed' = IF out.ok THEN initFailed ELSE initFailed \cup {lm[p].cur}
        /\ pluginTools' = out.tools
        /\ UNCHANGED <<modules, loadOnce, initRuns, loads, loadCfgs, loadFailed, crashed>>
        /\ UNCHANGED <<modCfg, disk, logsCall, restVars>>

\* module.Init(cfg) returns: nil, or an error, which f wraps and returns with
InitReturns(p) ==
    LET out == InitOutcome(lm[p].cur, lm[p].cfg)
    IN  /\ lm[p].pc = "init"
        /\ IF out.ok
           THEN /\ lm' = [lm EXCEPT ![p].pc = "range", ![p].visited = @ \cup {lm[p].cur},
                                    ![p].cur = ""]
                /\ UNCHANGED <<loadOnce, initFailed>>
           ELSE /\ lm' = [lm EXCEPT ![p].pc = "check", ![p].cur = "",
                                    ![p].loadErr = [msg |-> "failed to init module",
                                                    module |-> lm[p].cur,
                                                    cause |-> out.err]]
                /\ loadOnce' = "done"
                /\ initFailed' = initFailed \cup {lm[p].cur}
        /\ pluginTools' = out.tools
        /\ UNCHANGED <<modules, initRuns, loads, loadCfgs, loadFailed, crashed>>
        /\ UNCHANGED <<modCfg, disk, logsCall, restVars>>

\* the range of f is exhausted: f returns and loadOnce is done
OnceDone(p) ==
    /\ lm[p].pc = "range"
    /\ lm[p].visited = DOMAIN modules
    /\ loadOnce' = "done"
    /\ lm' = [lm EXCEPT ![p].pc = "check"]
    /\ UNCHANGED <<modules, initRuns, initFailed, loads, loadCfgs, loadFailed, crashed>>
    /\ UNCHANGED <<modVars, restVars>>

\* Loaded that leaves out a provider whose Init has not run
LoadedIfInitialized(cfg) ==
    { name \in DOMAIN modules : ~Disabled(name, cfg) /\ initRuns[name] > 0 }

\* the providers LoadModules collects under mu.RLock: those not disabled by cfg
Loaded(cfg) == { name \in DOMAIN modules : ~Disabled(name, cfg) }

\* the rest of LoadModules: return nil, loadErr when loadErr is set, and else,
\* between mu.RLock and mu.RUnlock, which wait while Register holds mu, the
\* list of the providers that are not disabled
LoadModulesReturns(p) ==
    /\ lm[p].pc = "check"
    /\ IF lm[p].loadErr # NoErr
       THEN /\ lm' = [lm EXCEPT ![p].pc = "returned",
                        ![p].ret = [isNil |-> TRUE, loaded |-> {}, err |-> lm[p].loadErr]]
            /\ loadFailed' = TRUE
       ELSE /\ mu.holder = ""
            /\ lm' = [lm EXCEPT ![p].pc = "returned",
                        ![p].ret = [isNil |-> FALSE, loaded |-> Loaded(lm[p].cfg),
                                    err |-> NoErr]]
            /\ UNCHANGED loadFailed
    /\ UNCHANGED <<modules, loadOnce, initRuns, initFailed, loads, loadCfgs, crashed>>
    /\ UNCHANGED <<modVars, restVars>>

\* Register(name, module) called by goroutine p while others may be in
\* LoadModules: mu.Lock()
RegisterLock(p, name, module) ==
    /\ ~crashed
    /\ lm[p].pc \in {"idle", "returned"}
    /\ mu.holder = ""
    /\ mu' = [holder |-> p, name |-> name, module |-> module]
    /\ UNCHANGED <<modules, loadOnce, lm, initRuns, initFailed, loads, loadCfgs, loadFailed,
                   crashed>>
    /\ UNCHANGED <<modVars, polVars, mainVars, dispVars>>

\* the goroutines whose `for name, module := range modules` of the
\* initialization pass is under way
Ranging == { q \in Procs : lm[q].pc \in {"range", "init"} }

\* the rest of Register under mu: the panic for a name that is present, or the
\* write modules[name] = module, and the deferred mu.Unlock(). A write while
\* another goroutine ranges over the map is a data race: the runtime may end
\* the process (fatal error: concurrent map iteration and map write), and a
\* range that goes on may or may not come to the new entry
RegisterWrite(p) ==
    /\ ~crashed
    /\ mu.holder = p
    /\ mu' = NoHolder
    /\ IF mu.name \in DOMAIN modules
       THEN crashed' = TRUE /\ UNCHANGED <<modules, lm>>
       ELSE /\ modules' = (mu.name :> mu.module) @@ modules
            /\ IF Ranging = {}
               THEN UNCHANGED <<crashed, lm>>
               ELSE \/ crashed' = TRUE /\ UNCHANGED lm
                    \/ /\ UNCHANGED crashed
                       /\ \E missed \in SUBSET Ranging :
                             lm' = [q \in Procs |->
                                       IF q \in missed
                                       THEN [lm[q] EXCEPT !.visited = @ \cup {mu.name}]
                                       ELSE lm[q]]
    /\ UNCHANGED <<loadOnce, initRuns, initFailed, loads, loadCfgs, loadFailed>>
    /\ UNCHANGED <<modVars, polVars, mainVars, dispVars>>

(***************************************************************************)
(* SpecRegistry: the registry under a harness that registers its providers *)
(* and whose goroutines then call LoadModules any number of times, one     *)
(* after the other or at once.                                             *)
(***************************************************************************)
InitRegistry ==
    /\ RegistryFresh
    /\ ModulesFresh
    /\ disk = <<>>
    /\ toolPolicy = New(EmptyPolicy, TRUE)
    /\ ev = NoEval
    /\ MainFresh
    /\ DispatcherFresh

NextRegistry ==
    \/ \E name \in HarnessNames, module \in TestProviders : Register(name, module)
    \/ \E p \in Goroutines, cfg \in RegistryConfigs : LoadModulesCall(p, cfg)
    \/ \E p \in Goroutines : OnceEnter(p)
    \/ \E p \in Goroutines : OnceWait(p)
    \/ \E p \in Goroutines : OncePass(p)
    \/ \E p \in Goroutines : RangeModules(p)
    \/ \E p \in Goroutines : InitReturns(p)
    \/ \E p \in Goroutines : OnceDone(p)
    \/ \E p \in Goroutines : LoadModulesReturns(p)

SpecRegistry == InitRegistry /\ [][NextRegistry]_vars

(***************************************************************************)
(* SpecRace: the registry under a harness whose goroutines call Register   *)
(* and LoadModules at any time, also at once.                              *)
(***************************************************************************)
\* the provider such a harness registers: it is enabled and its Init succeeds
RaceProvider == [kind |-> "test", toggleable |-> FALSE, initFails |-> FALSE]

NextRace ==
    \/ \E name \in HarnessNames : Register(name, RaceProvider)
    \/ \E p \in Goroutines, name \in HarnessNames : RegisterLock(p, name, RaceProvider)
    \/ \E p \in Goroutines : RegisterWrite(p)
    \/ \E p \in Goroutines : LoadModulesCall(p, DefaultConfig)
    \/ \E p \in Goroutines : OnceEnter(p)
    \/ \E p \in Goroutines : OnceWait(p)
    \/ \E p \in Goroutines : OncePass(p)
    \/ \E p \in Goroutines : RangeModules(p)
    \/ \E p \in Goroutines : InitReturns(p)
    \/ \E p \in Goroutines : OnceDone(p)
    \/ \E p \in Goroutines : LoadModulesReturns(p)

SpecRace == InitRegistry /\ [][NextRace]_vars

(***************************************************************************)
(* SpecPolicy: Evaluate as a function, over every policy of the bound.     *)
(***************************************************************************)
InitPolicy ==
    /\ toolPolicy \in { New(c, sm) : c \in PolicyConfigs(MaxPatterns), sm \in BOOLEAN }
    /\ ev = NoEval
    /\ RegistryFresh
    /\ ModulesFresh
    /\ disk = <<>>
    /\ MainFresh
    /\ DispatcherFresh

\* one call p.Evaluate(module, tool)
EvaluateCall ==
    \E pair \in ToolPairs :
        /\ ev' = [module |-> pair[1], tool |-> pair[2],
                  decision |-> Evaluate(toolPolicy, pair[1], pair[2])]
        /\ UNCHANGED toolPolicy
        /\ UNCHANGED <<regVars, modVars, mainVars, dispVars>>

NextPolicy == EvaluateCall

SpecPolicy == InitPolicy /\ [][NextPolicy]_vars

(***************************************************************************)
(* cmd/nexus/main.go: start-up, tool registration, and the tool handlers.  *)
(***************************************************************************)
\* the policy blocks of the configuration files of the model
PolicySamples ==
    { EmptyPolicy,
      [EmptyPolicy EXCEPT !.DenyTools = <<"k8s_list_pods">>,
                          !.ConfirmTools = <<"k8s_[d-l]*">>],
      [EmptyPolicy EXCEPT !.AllowModules = <<"p?????s">>,
                          !.ConfirmTools = <<"plugin/*/*">>] }

\* the configurations a file may yield
FileConfigs ==
    [SafeMode : BOOLEAN, Policy : PolicySamples,
     Enabled : {{}, {"kubernetes"}, {"kubernetes", "plugins"}, {"plugins", "prometheus"}},
     PluginsEnv : {<<>>}, MaxBytes : {DefaultMaxBytes},
     PrometheusURL : {"http://localhost:9090"}]

\* what --config names: no file, a file that cannot be read, a file that is not
\* YAML, or a YAML file: the values of its keys (cfg), and the keys whose value
\* does not have the type of the field (mistyped): max_bytes of the plugins
\* that holds a word, not a number, next to keys that are well typed
ConfigFiles ==
    { [state |-> st, cfg |-> DefaultConfig, mistyped |-> {}] :
          st \in {"missing", "unreadable", "syntax"} } \cup
    { [state |-> "yaml", cfg |-> c, mistyped |-> {}] : c \in FileConfigs } \cup
    { [state |-> "yaml", cfg |-> [DefaultConfig EXCEPT !.SafeMode = sm],
       mistyped |-> {"MaxBytes"}] : sm \in BOOLEAN }

\* os.ReadFile(path): its error, "" for nil
ReadFile(file) ==
    IF file.state = "missing" THEN "no such file or directory"
    ELSE IF file.state = "unreadable" THEN "permission denied"
    ELSE ""

\* yaml.Unmarshal(data, cfg) of yaml.v3: a document that does not parse is not
\* decoded at all; a value of the wrong type is skipped, the decoding goes on
\* to the end of the document, and a *yaml.TypeError is returned
Unmarshal(file, cfg) ==
    IF file.state = "syntax" THEN [cfg |-> cfg, err |-> "yaml: syntax error"]
    ELSE [cfg |-> [f \in DOMAIN cfg |->
                      IF f \in file.mistyped THEN cfg[f] ELSE file.cfg[f]],
          err |-> IF file.mistyped # {} THEN "yaml: unmarshal errors" ELSE ""]

\* config.LoadConfig(path): cfg, err
LoadConfig(file) ==
    IF ReadFile(file) # "" THEN [cfg |-> DefaultConfig, err |-> ReadFile(file)]
    ELSE Unmarshal(file, DefaultConfig)

\* the provider the init() of each module package registers
NewModule(name) ==
    IF name = "plugins" THEN PluginsModule
    ELSE IF name = "prometheus" THEN PrometheusModule
    ELSE K8sModule

\* queryMetricTool, the one tool of the prometheus module
queryMetricTool == "prometheus_query_metric"

\* the tools of the kubernetes module the model keeps
KubernetesTools == {"k8s_list_pods", "k8s_get_logs"}

\* module.GetTools(): the names of the descriptors
GetTools(name) ==
    IF modCfg[name].isNil \/ name \notin modCfg[name].cfg.Enabled THEN {}
    ELSE IF modules[name].kind = "plugins" THEN DOMAIN pluginTools
    ELSE IF modules[name].kind = "kubernetes" THEN KubernetesTools
    ELSE IF modules[name].kind = "prometheus" THEN {queryMetricTool}
    ELSE {}

\* the status collectToolSummaries gives a decision
Status(decision) ==
    IF decision = Confirm THEN "confirm"
    ELSE IF decision = Deny THEN "denied"
    ELSE "allowed"

\* the (module, tool) pairs the loops over modules and module.GetTools() visit
Descriptors(mods) == UNION { {m} \X GetTools(m) : m \in mods }

\* collectToolSummaries(modules, toolPolicy); the order of the list is dropped
collectToolSummaries(mods, p) ==
    { [Module |-> h[1], Name |-> h[2], Status |-> Status(Evaluate(p, h[1], h[2]))] :
          h \in Descriptors(mods) }

\* registerTools without the check of the decision: every descriptor is added
RegisterToolsUnfiltered(mods, p) == Descriptors(mods)

\* registerTools(s, modules, toolPolicy): the handlers given to s.AddTool
registerTools(mods, p) ==
    { h \in Descriptors(mods) : Evaluate(p, h[1], h[2]) # Deny }

\* the init() of a module package, run once before main
PackageInit(name) ==
    /\ name \notin DOMAIN modules
    /\ Register(name, NewModule(name))

\* main when os.Args[1] is install: runInstall, and the process ends
runInstall(source, destDir, kind, dl, tmp) ==
    /\ mainPc = "init"
    /\ ~crashed
    /\ DOMAIN modules = ModuleNames
    /\ install' = Install(source, destDir, kind, dl, tmp)
    /\ mainPc' = "installed"
    /\ UNCHANGED <<polVars, regVars, modVars, dispVars, mainCfg, configErr, safeMode,
                   sse>>

\* MainStart in which --safe-mode replaces the safe mode of the configuration
MainStartFlagDecides(file, safeModeFlag, transport) ==
    /\ mainPc = "init"
    /\ ~crashed
    /\ DOMAIN modules = ModuleNames
    /\ mainCfg' = [LoadConfig(file).cfg EXCEPT !.SafeMode = safeModeFlag]
    /\ configErr' = LoadConfig(file).err
    /\ safeMode' = safeModeFlag
    /\ sse' = (transport = "sse")
    /\ mainPc' = "loadModules"
    /\ UNCHANGED <<polVars, regVars, modVars, dispVars, install>>

\* main up to registry.LoadModules: flags, LoadConfig, the --safe-mode override
MainStart(file, safeModeFlag, transport) ==
    /\ mainPc = "init"
    /\ ~crashed
    /\ DOMAIN modules = ModuleNames
    /\ mainCfg' = IF safeModeFlag THEN [LoadConfig(file).cfg EXCEPT !.SafeMode = TRUE]
                  ELSE LoadConfig(file).cfg
    /\ configErr' = LoadConfig(file).err
    /\ safeMode' = safeModeFlag
    /\ sse' = (transport = "sse")
    /\ mainPc' = "loadModules"
    /\ UNCHANGED <<polVars, regVars, modVars, dispVars, install>>

\* modules, err := registry.LoadModules(cfg)
MainLoadModules ==
    /\ mainPc = "loadModules"
    /\ lm["main"].pc = "idle"
    /\ LoadModulesCall("main", mainCfg)

\* MainSetup without the check of the error of LoadModules
MainSetupIgnoresError ==
    /\ mainPc = "loadModules"
    /\ lm["main"].pc = "returned"
    /\ LET p == New(mainCfg.Policy, mainCfg.SafeMode)
           mods == lm["main"].ret.loaded
       IN  /\ toolPolicy' = p
           /\ toolSummaries' = collectToolSummaries(mods, p)
           /\ handlers' = registerTools(mods, p)
           /\ mainPc' = "serving"
    /\ UNCHANGED <<ev, regVars, modVars, mainCfg, configErr, safeMode, sse, install,
                   calls, callsMade,
                   toolsResponse>>

\* main after LoadModules: os.Exit(1) on an error, and else policy.New,
\* collectToolSummaries, registerTools and the start of the transport
MainSetup ==
    /\ mainPc = "loadModules"
    /\ lm["main"].pc = "returned"
    /\ IF lm["main"].ret.err # NoErr
       THEN /\ mainPc' = "exited"
            /\ UNCHANGED <<toolPolicy, toolSummaries, handlers>>
       ELSE LET p == New(mainCfg.Policy, mainCfg.SafeMode)
                mods == lm["main"].ret.loaded
            IN  /\ toolPolicy' = p
                /\ toolSummaries' = collectToolSummaries(mods, p)
                /\ handlers' = registerTools(mods, p)
                /\ mainPc' = "serving"
    /\ UNCHANGED <<ev, regVars, modVars, mainCfg, configErr, safeMode, sse, install,
                   calls, callsMade,
                   toolsResponse>>

\* the handler of GET /tools, which only the sse transport serves
ToolsRequest ==
    /\ mainPc = "serving"
    /\ sse
    /\ toolsResponse' = [served |-> TRUE, Tools |-> toolSummaries]
    /\ UNCHANGED <<polVars, regVars, modVars, mainVars, toolSummaries, handlers, calls,
                   callsMade>>

\* confirmTool in which a terminal that cannot be opened counts as consent
ConfirmToolSkipsWhenNoTty(module, tool, ttyOk, line) ==
    IF ~ttyOk THEN TRUE
    ELSE LET response == TrimSpace(ToLower(Chars[line]))
         IN  response = <<"y">> \/ response = <<"y", "e", "s">>

\* confirmTool(module, tool); ttyOk: /dev/tty opens; line: what ReadString gives
confirmTool(module, tool, ttyOk, line) ==
    IF ~ttyOk THEN FALSE
    ELSE LET response == TrimSpace(ToLower(Chars[line]))
         IN  response = <<"y">> \/ response = <<"y", "e", "s">>

\* what a person may type at the prompt (the last one without a newline: EOF)
ConfirmLines == {"y\n", "YES\n", " yes \n", "yes", "n\n", "yes please\n", "\n", ""}

\* mcp.NewToolResultError(text), nil
ToolResultError(text) == [NoResult EXCEPT !.isNil = FALSE, !.isError = TRUE, !.text = text]

\* mcp.NewToolResultText(text), nil
ToolResultText(text) == [NoResult EXCEPT !.isNil = FALSE, !.text = text]

\* ToolHandler without the check for Deny at call time
ToolHandlerNoRecheck(w, h) ==
    LET callDecision == Evaluate(toolPolicy, h[1], h[2])
    IN  /\ mainPc = "serving"
        /\ h \in handlers
        /\ calls[w].pc \in {"idle", "done"}
        /\ callsMade < MaxCalls
        /\ callsMade' = callsMade + 1
        /\ calls' = [calls EXCEPT ![w] =
               [IdleWorker EXCEPT !.module = h[1], !.tool = h[2],
                                  !.decision = callDecision,
                                  !.pc = IF callDecision = Confirm THEN "confirm"
                                         ELSE "handle"]]
        /\ UNCHANGED <<polVars, regVars, modVars, mainVars, toolSummaries, handlers,
                       toolsResponse>>

\* the handler registerTools gives to s.AddTool for (mod, name), from its entry
\* to the return for Deny, or to the point where it confirms or calls HandleCall
ToolHandler(w, h) ==
    LET callDecision == Evaluate(toolPolicy, h[1], h[2])
    IN  /\ mainPc = "serving"
        /\ h \in handlers
        /\ calls[w].pc \in {"idle", "done"}
        /\ callsMade < MaxCalls
        /\ callsMade' = callsMade + 1
        /\ calls' = [calls EXCEPT ![w] =
               [IdleWorker EXCEPT !.module = h[1], !.tool = h[2],
                                  !.decision = callDecision,
                                  !.pc = IF callDecision = Deny THEN "done"
                                         ELSE IF callDecision = Confirm THEN "confirm"
                                         ELSE "handle",
                                  !.result = IF callDecision = Deny
                                             THEN ToolResultError("tool blocked by policy")
                                             ELSE NoResult]]
        /\ UNCHANGED <<polVars, regVars, modVars, mainVars, toolSummaries, handlers,
                       toolsResponse>>

\* the handler at `if !confirmTool(mod.Name(), name)`
HandlerConfirm(w, ttyOk, line) ==
    /\ calls[w].pc = "confirm"
    /\ IF confirmTool(calls[w].module, calls[w].tool, ttyOk, line)
       THEN calls' = [calls EXCEPT ![w].pc = "handle", ![w].asked = TRUE,
                                   ![w].ttyOk = ttyOk, ![w].line = line]
       ELSE calls' = [calls EXCEPT ![w].pc = "done", ![w].asked = TRUE,
                                   ![w].ttyOk = ttyOk, ![w].line = line,
                                   ![w].result =
                                       ToolResultError("tool execution denied by user")]
    /\ UNCHANGED <<polVars, regVars, modVars, mainVars, toolSummaries, handlers,
                   callsMade, toolsResponse>>

\* what HandleCall of the kubernetes module may return for the tool: a text
\* or an error result
HandleCallResults(module, tool) ==
    IF "kubernetes" \notin modCfg[module].cfg.Enabled
    THEN {ToolResultError("kubernetes module is disabled")}
    ELSE IF tool \notin KubernetesTools
    THEN {ToolResultError("unknown tool")}
    ELSE {ToolResultText("output"), ToolResultError("failed")}

\* return mod.HandleCall(ctx, name, args), for a module that answers in-process
HandleCall(w, res) ==
    /\ calls[w].pc = "handle"
    /\ modules[calls[w].module].kind = "kubernetes"
    /\ res \in HandleCallResults(calls[w].module, calls[w].tool)
    /\ calls' = [calls EXCEPT ![w].pc = "done", ![w].invoked = TRUE, ![w].result = res]
    /\ UNCHANGED <<polVars, regVars, modVars, mainVars, toolSummaries, handlers,
                   callsMade, toolsResponse>>

\* every result a HandleCall of the kubernetes module returns
Results ==
    { ToolResultError(t) : t \in {"unknown tool", "kubernetes module is disabled",
                                  "failed"} } \cup
    {ToolResultText("output")}

(***************************************************************************)
(* pkg/modules/prometheus: HandleCall and the query it sends.              *)
(***************************************************************************)
\* nil, err
GoError(err) == [NoResult EXCEPT !.goErr = TRUE, !.detail = err]

\* the base URLs of the model: their spelling, and the Scheme and the Host that
\* url.Parse gives for them
BaseURLs ==
    ("http://localhost:9090" :>
         [chars |-> <<"h", "t", "t", "p", ":", "/", "/", "l", "o", "c", "a", "l", "h",
                      "o", "s", "t", ":", "9", "0", "9", "0">>,
          Scheme |-> "http", Host |-> "localhost:9090"]) @@
    ("localhost" :>
         [chars |-> <<"l", "o", "c", "a", "l", "h", "o", "s", "t">>,
          Scheme |-> "", Host |-> ""]) @@
    (" " :> [chars |-> <<" ">>, Scheme |-> "", Host |-> ""])

\* buildQueryURL(baseURL, query): its error, "" for nil
buildQueryURL(baseURL) ==
    IF TrimSpace(BaseURLs[baseURL].chars) = <<>> THEN "base url is empty"
    ELSE IF BaseURLs[baseURL].Scheme = "" \/ BaseURLs[baseURL].Host = ""
    THEN "base url must include scheme and host"
    ELSE ""

\* what the server behind the URL does with the request: it cannot be reached,
\* it answers with a status outside 2xx, with a body that is not the JSON of a
\* response, with status "error" and a message, with another status that is
\* not "success", or with a result
Backends == {"unreachable", "status404", "undecodable", "error", "failed", "success"}

\* the query argument of a call: absent, or a PromQL string
Queries == {"", "up"}

\* m.handleQueryMetric(ctx, args); http.NewRequestWithContext does not fail for
\* the URL buildQueryURL has made; m.client.Do fails when the server cannot be
\* reached and when ctx is done
handleQueryMetric(cfg, query, backend, ctxDone) ==
    IF query = "" THEN ToolResultError("query is required")
    ELSE IF buildQueryURL(cfg.PrometheusURL) # ""
    THEN [ToolResultError("invalid prometheus url") EXCEPT
              !.detail = buildQueryURL(cfg.PrometheusURL)]
    ELSE IF ctxDone \/ backend = "unreachable" THEN GoError("failed to query prometheus")
    ELSE IF backend = "status404" THEN ToolResultError("prometheus returned status")
    ELSE IF backend = "undecodable" THEN GoError("failed to decode prometheus response")
    ELSE IF backend = "error" THEN ToolResultError("prometheus error")
    ELSE IF backend = "failed" THEN ToolResultError("prometheus query failed")
    ELSE ToolResultText("output")

\* HandleCall of the prometheus module, which the handler returns the pair of
PrometheusHandleCall(w, query, backend) ==
    LET cfg == modCfg[calls[w].module].cfg
        res == IF "prometheus" \notin cfg.Enabled
               THEN ToolResultError("prometheus module is disabled")
               ELSE IF calls[w].tool # queryMetricTool THEN ToolResultError("unknown tool")
               ELSE handleQueryMetric(cfg, query, backend, calls[w].cancelled)
    IN  /\ calls[w].pc = "handle"
        /\ modules[calls[w].module].kind = "prometheus"
        /\ calls' = [calls EXCEPT ![w].pc = "done", ![w].invoked = TRUE,
                                  ![w].query = query, ![w].backend = backend,
                                  ![w].result = res]
        /\ UNCHANGED <<polVars, regVars, modVars, mainVars, toolSummaries, handlers,
                       callsMade, toolsResponse>>

(***************************************************************************)
(* pkg/modules/plugins: HandleCall and the process it runs.                *)
(***************************************************************************)
\* the spelling of the commands of the manifests
Commands ==
    ("" :> <<>>) @@
    ("run.sh" :> <<"r", "u", "n", ".", "s", "h">>) @@
    ("/bin/tool" :> <<"/", "b", "i", "n", "/", "t", "o", "o", "l">>)

\* filepath.IsAbs(cmdPath)
IsAbs(cmdPath) == Len(Commands[cmdPath]) > 0 /\ Commands[cmdPath][1] = "/"

\* cmdPath of HandleCall: the command when it is absolute, and else
\* filepath.Join(m.cfg.Modules.Plugins.Dir, pt.manifest.Metadata.Name, cmdPath),
\* with the Modules.Plugins.Dir of DefaultConfig
CommandPath(manifest) ==
    IF IsAbs(manifest.Command) THEN manifest.Command
    ELSE "plugins" \o "/" \o manifest.Name \o "/" \o manifest.Command

\* os.Environ() of the nexus process
HostEnv == ("PATH" :> "/bin") @@ ("SECRET" :> "s3cr3t")

\* the orders in which `range pt.manifest.Spec.Env` may visit the keys
KeyOrders(keys) ==
    { o \in [1..Cardinality(keys) -> keys] :
          \A i, j \in 1..Cardinality(keys) : i # j => o[i] # o[j] }

\* cmd.Env as HandleCall builds it, an entry "key=value" kept as <<key, value>>:
\* the entries of Modules.Plugins.Env, then those of the manifest
CmdEnv(cfg, manifest, order) ==
    cfg.PluginsEnv \o [i \in 1..Len(order) |-> <<order[i], manifest.Env[order[i]]>>]

\* the environment os/exec gives the process: that of the host when cmd.Env is
\* nil, and else the entries of cmd.Env, the last one of a key winning
Environ(env) ==
    IF Len(env) = 0 THEN HostEnv
    ELSE [k \in { env[i][1] : i \in DOMAIN env } |->
             env[CHOOSE i \in DOMAIN env :
                     /\ env[i][1] = k
                     /\ \A j \in DOMAIN env : env[j][1] = k => j <= i][2]]

\* "\n... truncated"
TruncationMarker ==
    <<"\n", ".", ".", ".", " ", "t", "r", "u", "n", "c", "a", "t", "e", "d">>

\* trimOutput that also cuts an output of exactly maxBytes bytes
TrimOutputOffByOne(output, maxBytes) ==
    IF maxBytes <= 0 THEN output
    ELSE IF Len(output) < maxBytes THEN output
    ELSE SubSeq(output, 1, maxBytes) \o TruncationMarker

\* trimOutput(output, maxBytes)
trimOutput(output, maxBytes) ==
    IF maxBytes <= 0 THEN output
    ELSE IF Len(output) <= maxBytes THEN output
    ELSE SubSeq(output, 1, maxBytes) \o TruncationMarker

\* the safe-mode test of HandleCall with the negation of ReadOnly left out
BlockedWhenReadOnly(cfg, pt) == cfg.SafeMode /\ pt.tool.ReadOnly

\* m.cfg.Server.SafeMode && !pt.tool.ReadOnly
BlockedInSafeMode(cfg, pt) == cfg.SafeMode /\ ~pt.tool.ReadOnly

\* mcp.NewToolResultError(fmt.Sprintf("plugin error: %v: %s", err, output)), nil
PluginError(err, output) ==
    [ToolResultError("plugin error") EXCEPT !.detail = err, !.body = output]

\* CombinedResult that hands the error of the process to the caller
CombinedResultGoError(err, output, maxBytes) ==
    IF err # "" THEN GoError(err)
    ELSE [ToolResultText("") EXCEPT !.body = trimOutput(output, maxBytes)]

\* what HandleCall returns after cmd.CombinedOutput(): output, err
CombinedResult(err, output, maxBytes) ==
    IF err # "" THEN PluginError(err, TrimSpace(output))
    ELSE [ToolResultText("") EXCEPT !.body = trimOutput(output, maxBytes)]

\* plugins Module.HandleCall up to the start of the process, which does not
\* happen when ctx is done already or the command cannot be started (startOk)
PluginsHandleCall(w, startOk) ==
    LET cfg == modCfg[calls[w].module].cfg
        name == calls[w].tool
        return(res) == [calls EXCEPT ![w].pc = "done", ![w].invoked = TRUE,
                                     ![w].result = res]
    IN  /\ calls[w].pc = "handle"
        /\ modules[calls[w].module].kind = "plugins"
        /\ IF "plugins" \notin cfg.Enabled
           THEN calls' = return(ToolResultError("plugins module is disabled"))
           ELSE IF name \notin DOMAIN pluginTools
           THEN calls' = return(ToolResultError("unknown tool"))
           ELSE IF BlockedInSafeMode(cfg, pluginTools[name])
           THEN calls' = return(ToolResultError("tool blocked in safe mode"))
           ELSE IF pluginTools[name].manifest.Command = ""
           THEN calls' = return(ToolResultError("plugin command not configured"))
           ELSE IF calls[w].cancelled
           THEN calls' = [return(CombinedResult("context canceled", <<>>, cfg.MaxBytes))
                             EXCEPT ![w].child = "notStarted",
                                    ![w].cmdPath = CommandPath(pluginTools[name].manifest)]
           ELSE IF ~startOk
           THEN calls' = [return(CombinedResult("start failed", <<>>, cfg.MaxBytes))
                             EXCEPT ![w].child = "notStarted",
                                    ![w].cmdPath = CommandPath(pluginTools[name].manifest)]
           ELSE \E order \in KeyOrders(DOMAIN pluginTools[name].manifest.Env) :
                   calls' = [calls EXCEPT
                       ![w].pc = "wait", ![w].invoked = TRUE, ![w].child = "running",
                       ![w].cmdPath = CommandPath(pluginTools[name].manifest),
                       ![w].childEnv =
                           Environ(CmdEnv(cfg, pluginTools[name].manifest, order))]
        /\ UNCHANGED <<polVars, regVars, modVars, mainVars, toolSummaries, handlers,
                       callsMade, toolsResponse>>

\* what a plugin's process may have written
Outputs == UNION { [1..n -> {"a", "\n"}] : n \in 0..MaxOutput }

\* the process of the plugin exits by itself
PluginExits(w, code, output) ==
    /\ calls[w].child = "running"
    /\ calls' = [calls EXCEPT ![w].child = "exited", ![w].exitCode = code,
                              ![w].output = output]
    /\ UNCHANGED <<polVars, regVars, modVars, mainVars, toolSummaries, handlers,
                   callsMade, toolsResponse>>

\* the caller cancels the request, or its deadline passes: ctx of the handler is
\* done; this can happen wherever the handler is, also inside confirmTool
CtxCancel(w) ==
    /\ calls[w].pc \in {"confirm", "handle", "wait"}
    /\ ~calls[w].cancelled
    /\ calls' = [calls EXCEPT ![w].cancelled = TRUE]
    /\ UNCHANGED <<polVars, regVars, modVars, mainVars, toolSummaries, handlers,
                   callsMade, toolsResponse>>

\* PluginKilled for a command that is not bound to ctx (exec.Command)
PluginNeverKilled(w, output) ==
    /\ FALSE
    /\ UNCHANGED vars

\* exec.CommandContext: ctx is done while the process runs, and it is killed
PluginKilled(w, output) ==
    /\ calls[w].child = "running"
    /\ calls[w].cancelled
    /\ calls' = [calls EXCEPT ![w].child = "killed", ![w].exitCode = -1,
                              ![w].output = output]
    /\ UNCHANGED <<polVars, regVars, modVars, mainVars, toolSummaries, handlers,
                   callsMade, toolsResponse>>

\* the error cmd.CombinedOutput() returns for a process that has ended
WaitError(child, code) ==
    IF child = "killed" THEN "signal: killed"
    ELSE IF code # 0 THEN "exit status 1"
    ELSE ""

\* cmd.CombinedOutput() returns, and HandleCall with it
PluginsHandleCallReturns(w) ==
    /\ calls[w].pc = "wait"
    /\ calls[w].child \in {"exited", "killed"}
    /\ calls' = [calls EXCEPT
           ![w].pc = "done",
           ![w].result = CombinedResult(WaitError(calls[w].child, calls[w].exitCode),
                                        calls[w].output,
                                        modCfg[calls[w].module].cfg.MaxBytes)]
    /\ UNCHANGED <<polVars, regVars, modVars, mainVars, toolSummaries, handlers,
                   callsMade, toolsResponse>>

(***************************************************************************)
(* SpecLogs: the log tools as a function of the path they are given and of *)
(* Modules.Logs.AllowPaths, over the file system LogFS, which does not     *)
(* change while a call runs.                                               *)
(***************************************************************************)
InitLogs ==
    /\ RegistryFresh
    /\ modCfg = [n \in ModuleNames |-> NilCfg]
    /\ pluginTools = <<>>
    /\ disk = <<>>
    /\ logsCall \in
           { [NoLogsCall EXCEPT !.pc = "called", !.tool = t, !.path = path, !.query = q,
                                !.allowPaths = allow] :
                 t \in {"logs_tail", "logs_grep"}, path \in PathsUpTo(MaxPath), q \in {"", "x"},
                 allow \in AllowPathLists }
    /\ toolPolicy = New(EmptyPolicy, TRUE)
    /\ ev = NoEval
    /\ MainFresh
    /\ DispatcherFresh

\* HandleCall of the logs module for tailLogTool or grepLogTool
LogsHandleCall ==
    /\ logsCall.pc = "called"
    /\ logsCall' = handleLog(logsCall)
    /\ UNCHANGED <<polVars, regVars, modCfg, pluginTools, disk, mainVars, dispVars>>

NextLogs == LogsHandleCall

SpecLogs == InitLogs /\ [][NextLogs]_vars

(***************************************************************************)
(* Spec: the program, from the init() functions of its packages to the     *)
(* tool invocations and inventory requests it serves.                      *)
(***************************************************************************)
Init ==
    /\ RegistryFresh
    /\ ModulesFresh
    /\ disk \in PluginDisks
    /\ toolPolicy = New(EmptyPolicy, TRUE)
    /\ ev = NoEval
    /\ MainFresh
    /\ DispatcherFresh

Next ==
    \/ \E name \in ModuleNames : PackageInit(name)
    \/ \E file \in ConfigFiles, safeModeFlag \in BOOLEAN, transport \in {"stdio", "sse"} :
          MainStart(file, safeModeFlag, transport)
    \/ \E r \in InstallRuns : runInstall(r.source, r.destDir, r.kind, r.dl, r.tmp)
    \/ MainLoadModules
    \/ OnceEnter("main")
    \/ RangeModules("main")
    \/ InitReturns("main")
    \/ OnceDone("main")
    \/ LoadModulesReturns("main")
    \/ MainSetup
    \/ ToolsRequest
    \/ \E w \in Workers, h \in ToolPairs : ToolHandler(w, h)
    \/ \E w \in Workers, ttyOk \in BOOLEAN, line \in ConfirmLines :
          HandlerConfirm(w, ttyOk, line)
    \/ \E w \in Workers, res \in Results : HandleCall(w, res)
    \/ \E w \in Workers, query \in Queries, backend \in Backends :
          PrometheusHandleCall(w, query, backend)
    \/ \E w \in Workers, startOk \in BOOLEAN : PluginsHandleCall(w, startOk)
    \/ \E w \in Workers, code \in {0, 1}, output \in Outputs : PluginExits(w, code, output)
    \/ \E w \in Workers : CtxCancel(w)
    \/ \E w \in Workers, output \in Outputs : PluginKilled(w, output)
    \/ \E w \in Workers : PluginsHandleCallReturns(w)

Spec == Init /\ [][Next]_vars

(***************************************************************************)
(* SpecHandler: the tool handler as a function of what its closure holds.  *)
(* In the program the policy never changes once main has built it, so a    *)
(* handler only exists for a tool the policy does not deny. Here a handler *)
(* stands for every descriptor of the loaded modules, under every sample   *)
(* policy, which is the position of a handler whose policy has come to     *)
(* deny its tool since registration.                                       *)
(***************************************************************************)
\* the plugins directory with the plugin demo
DemoDisk ==
    << DemoDir("run.sh", <<>>, <<EchoTool, ScaleTool, RunTool>>) >>

\* a configuration that enables every module
HandlerConfigs ==
    { [DefaultConfig EXCEPT !.SafeMode = sm, !.Policy = pol, !.Enabled = ModuleNames,
                            !.PrometheusURL = u] :
          sm \in BOOLEAN, pol \in PolicySamples, u \in DOMAIN BaseURLs }

\* main serves with configuration c, plugins directory d and handlers hs, after
\* a LoadModules call that initialized every module
Serving(c, d, unfiltered) ==
    /\ modules = [n \in ModuleNames |-> NewModule(n)]
    /\ loadOnce = "done"
    /\ lm = [p \in Procs |->
               IF p = "main"
               THEN [IdleCall EXCEPT !.pc = "returned", !.cfg = c, !.ranOnce = TRUE,
                                     !.visited = ModuleNames,
                                     !.ret = [isNil |-> FALSE, loaded |-> ModuleNames,
                                              err |-> NoErr]]
               ELSE IdleCall]
    /\ initRuns = [n \in ModuleNames |-> 1]
    /\ initFailed = {}
    /\ loads = 1
    /\ loadCfgs = {c}
    /\ loadFailed = FALSE
    /\ crashed = FALSE
    /\ mu = NoHolder
    /\ modCfg = [n \in ModuleNames |-> [isNil |-> FALSE, cfg |-> c]]
    /\ disk = d
    /\ pluginTools = PluginsInit(c, d, <<>>).tools
    /\ logsCall = NoLogsCall
    /\ mainPc = "serving"
    /\ mainCfg = c
    /\ configErr = ""
    /\ safeMode = FALSE
    /\ sse = FALSE
    /\ install = NoInstall
    /\ toolPolicy = New(c.Policy, c.SafeMode)
    /\ ev = NoEval
    /\ toolSummaries = collectToolSummaries(ModuleNames, toolPolicy)
    /\ handlers = IF unfiltered THEN Descriptors(ModuleNames)
                  ELSE registerTools(ModuleNames, toolPolicy)
    /\ calls = [w \in Workers |-> IdleWorker]
    /\ callsMade = 0
    /\ toolsResponse = [served |-> FALSE, Tools |-> {}]

InitHandler == \E c \in HandlerConfigs : Serving(c, DemoDisk, TRUE)

NextHandler ==
    \/ \E w \in Workers, h \in ToolPairs : ToolHandler(w, h)
    \/ \E w \in Workers, ttyOk \in BOOLEAN, line \in ConfirmLines :
          HandlerConfirm(w, ttyOk, line)
    \/ \E w \in Workers, res \in Results : HandleCall(w, res)
    \/ \E w \in Workers, query \in Queries, backend \in Backends :
          PrometheusHandleCall(w, query, backend)
    \/ \E w \in Workers, startOk \in BOOLEAN : PluginsHandleCall(w, startOk)
    \/ \E w \in Workers, code \in {0, 1}, output \in Outputs : PluginExits(w, code, output)
    \/ \E w \in Workers : CtxCancel(w)
    \/ \E w \in Workers, output \in Outputs : PluginKilled(w, output)
    \/ \E w \in Workers : PluginsHandleCallReturns(w)

SpecHandler == InitHandler /\ [][NextHandler]_vars

(***************************************************************************)
(* SpecPlugin: the server while it serves plugin tools, over the values of *)
(* Modules.Plugins.MaxBytes and Modules.Plugins.Env and over what the      *)
(* process of a plugin writes. The Go runtime schedules the goroutine that *)
(* kills the process of a cancelled request, and the return of             *)
(* CombinedOutput once the process has ended; a process need not exit by   *)
(* itself.                                                                 *)
(***************************************************************************)
\* the plugins directory with a manifest that sets a variable
EnvDisk ==
    << NoManifestDir, DemoDir("run.sh", "MODE" :> "m", <<EchoTool, RunTool>>) >>

\* the values of Modules.Plugins.Env of the model
EnvLists == { <<>>, << <<"MODE", "a">>, <<"LANG", "C">>, <<"LANG", "en">> >> }

PluginConfigs ==
    { [DefaultConfig EXCEPT !.SafeMode = FALSE, !.Enabled = ModuleNames,
                            !.PluginsEnv = e, !.MaxBytes = m] :
          e \in EnvLists, m \in (-1)..MaxOutput }

InitPlugin ==
    \E c \in PluginConfigs, d \in {DemoDisk, EnvDisk} : Serving(c, d, FALSE)

NextPlugin ==
    \/ \E w \in Workers, h \in {pair \in ToolPairs : pair[1] = "plugins"} :
          ToolHandler(w, h)
    \/ \E w \in Workers, startOk \in BOOLEAN : PluginsHandleCall(w, startOk)
    \/ \E w \in Workers, code \in {0, 1}, output \in Outputs : PluginExits(w, code, output)
    \/ \E w \in Workers : CtxCancel(w)
    \/ \E w \in Workers, output \in Outputs : PluginKilled(w, output)
    \/ \E w \in Workers : PluginsHandleCallReturns(w)

SpecPlugin ==
    /\ InitPlugin
    /\ [][NextPlugin]_vars
    /\ WF_vars(\E w \in Workers, output \in Outputs : PluginKilled(w, output))
    /\ WF_vars(\E w \in Workers : PluginsHandleCallReturns(w))

(***************************************************************************)
(* SpecConfirm: the server while it serves, under the scheduling of the Go *)
(* runtime: a handler that can take a step takes it, a cancelled process   *)
(* is killed and CombinedOutput returns. The one step nothing schedules is *)
(* the answer at the prompt: reader.ReadString in confirmTool returns when *)
(* the person at the terminal types a line, which may never happen.        *)
(***************************************************************************)
InitConfirm == \E c \in HandlerConfigs : Serving(c, DemoDisk, FALSE)

SpecConfirm ==
    /\ InitConfirm
    /\ [][NextHandler]_vars
    /\ WF_vars(\E w \in Workers, res \in Results : HandleCall(w, res))
    /\ WF_vars(\E w \in Workers, query \in Queries, backend \in Backends :
                  PrometheusHandleCall(w, query, backend))
    /\ WF_vars(\E w \in Workers, startOk \in BOOLEAN : PluginsHandleCall(w, startOk))
    /\ WF_vars(\E w \in Workers, output \in Outputs : PluginKilled(w, output))
    /\ WF_vars(\E w \in Workers : PluginsHandleCallReturns(w))

(***************************************************************************)
(* Properties of the policy engine (SpecPolicy).                           *)
(***************************************************************************)
\* some pattern of the list matches the name
GlobHit(patterns, name) ==
    \E i \in DOMAIN patterns : PathMatch(Chars[patterns[i]], name)

QualifiedName(module, tool) == Chars[module] \o <<"/">> \o Chars[tool]

\* some pattern of the list matches the tool, bare or as module/tool
ToolHit(patterns, module, tool) ==
    GlobHit(patterns, Chars[tool]) \/ GlobHit(patterns, QualifiedName(module, tool))

\* the name contains a mutating keyword, whatever the case of its letters
HasKeyword(name) ==
    \E k \in DOMAIN sensitive :
        \E i \in 0..(Len(name) - Len(sensitive[k])) :
            \A j \in 1..Len(sensitive[k]) : ToLowerChar(name[i + j]) = sensitive[k][j]

SafeRule(p, module, tool) == p.safeMode /\ HasKeyword(Chars[tool])

DenyRule(p, module, tool) ==
    GlobHit(p.cfg.DenyModules, Chars[module]) \/ ToolHit(p.cfg.DenyTools, module, tool)

AllowHit(p, module, tool) ==
    GlobHit(p.cfg.AllowModules, Chars[module]) \/ ToolHit(p.cfg.AllowTools, module, tool)

AllowlistMiss(p, module, tool) ==
    /\ p.cfg.AllowModules # <<>> \/ p.cfg.AllowTools # <<>>
    /\ ~AllowHit(p, module, tool)

\* C3: whenever a deny-module pattern matches the module or a deny-tool pattern
\* matches the tool (bare or as module/tool), Evaluate returns Deny, safe mode on
\* or off, whatever the allow and confirm lists hold.
DenyHasPrecedence ==
    ev # NoEval /\ DenyRule(toolPolicy, ev.module, ev.tool) => ev.decision = Deny

\* a deny pattern, an allow pattern and a confirm pattern all match the pair,
\* outside safe mode, and the decision is Deny
DenyOverAllowAndConfirmSeen ==
    /\ ev # NoEval
    /\ ~toolPolicy.safeMode
    /\ DenyRule(toolPolicy, ev.module, ev.tool)
    /\ AllowHit(toolPolicy, ev.module, ev.tool)
    /\ ToolHit(toolPolicy.cfg.ConfirmTools, ev.module, ev.tool)
    /\ ev.decision = Deny

\* C4: in safe mode a tool whose name contains a mutating keyword, in any case
\* of its letters, is denied, even when an allow pattern matches the pair.
SafeModeBlocksSensitive ==
    ev # NoEval /\ SafeRule(toolPolicy, ev.module, ev.tool) => ev.decision = Deny

\* safe mode, a keyword spelled with capitals, an allow pattern that matches,
\* no deny pattern that does: Deny
SensitiveAllowedToolDeniedSeen ==
    /\ ev # NoEval
    /\ toolPolicy.safeMode
    /\ ev.tool = "plugin/demo/Scale_Up"
    /\ AllowHit(toolPolicy, ev.module, ev.tool)
    /\ ~DenyRule(toolPolicy, ev.module, ev.tool)
    /\ ev.decision = Deny

\* C5: once an allowlist exists, a pair that matches neither allow-modules nor
\* allow-tools is denied; and a pair that matches an allow pattern is allowed
\* when the safe-mode rule, the deny lists and the confirm list do not apply.
AllowlistDefaultDeny ==
    ev # NoEval =>
        /\ AllowlistMiss(toolPolicy, ev.module, ev.tool) => ev.decision = Deny
        /\ (/\ AllowHit(toolPolicy, ev.module, ev.tool)
            /\ ~SafeRule(toolPolicy, ev.module, ev.tool)
            /\ ~DenyRule(toolPolicy, ev.module, ev.tool)
            /\ ~ToolHit(toolPolicy.cfg.ConfirmTools, ev.module, ev.tool))
           => ev.decision = Allow

\* a pair denied by the allowlist alone: only allow-tools is set, it misses, and
\* neither the safe-mode rule nor a deny pattern applies
AllowlistMissSeen ==
    /\ ev # NoEval
    /\ toolPolicy.cfg.AllowModules = <<>>
    /\ AllowlistMiss(toolPolicy, ev.module, ev.tool)
    /\ ~SafeRule(toolPolicy, ev.module, ev.tool)
    /\ ~DenyRule(toolPolicy, ev.module, ev.tool)
    /\ ev.decision = Deny

\* C6: the decision is Confirm exactly when no Deny rule applies and a confirm
\* pattern matches the tool, bare or as module/tool; it is Allow when no Deny
\* rule applies and no confirm pattern matches.
ConfirmExactlyWhenMatched ==
    ev # NoEval =>
        LET denied == \/ SafeRule(toolPolicy, ev.module, ev.tool)
                      \/ DenyRule(toolPolicy, ev.module, ev.tool)
                      \/ AllowlistMiss(toolPolicy, ev.module, ev.tool)
            hit    == ToolHit(toolPolicy.cfg.ConfirmTools, ev.module, ev.tool)
        IN  /\ ev.decision = Confirm <=> (~denied /\ hit)
            /\ (~denied /\ ~hit) => ev.decision = Allow

\* Confirm through a pattern that matches the qualified name only, with an
\* allowlist that the pair passes
ConfirmByQualifiedNameSeen ==
    /\ ev # NoEval
    /\ ev.decision = Confirm
    /\ ~GlobHit(toolPolicy.cfg.ConfirmTools, Chars[ev.tool])
    /\ GlobHit(toolPolicy.cfg.ConfirmTools, QualifiedName(ev.module, ev.tool))
    /\ AllowHit(toolPolicy, ev.module, ev.tool)

(***************************************************************************)
(* Properties of the registry (SpecRegistry).                              *)
(***************************************************************************)
\* C8: over any number of LoadModules calls with one configuration, one after
\* the other or at once, Init of a provider is invoked at most once, and, once
\* the initialization pass is over without a failed Init, exactly once for
\* every provider that the configuration does not disable.
InitRunsOnce ==
    Cardinality(loadCfgs) <= 1 =>
        /\ \A n \in ModuleNames : initRuns[n] <= 1
        /\ (loadOnce = "done" /\ initFailed = {}) =>
              \A n \in DOMAIN modules : \A cfg \in loadCfgs :
                  ~Disabled(n, cfg) => initRuns[n] = 1

\* two calls with the same configuration have returned a list, one of them
\* after waiting for the other's initialization pass, and Init ran once
LoadedTwiceInitOnceSeen ==
    \E p, q \in Goroutines :
        /\ p # q
        /\ lm[p].pc = "returned" /\ lm[p].ranOnce /\ ~lm[p].ret.isNil
        /\ lm[q].pc = "returned" /\ lm[q].waited /\ ~lm[q].ret.isNil
        /\ Cardinality(loadCfgs) = 1
        /\ \E n \in lm[q].ret.loaded : initRuns[n] = 1

\* C9: when an Init fails in the first LoadModules call (the one that runs the
\* initialization pass), that call returns the wrapped error naming the module
\* and no list, and no Init is started after the failure.
FirstLoadFailureAborts ==
    /\ [](\A p \in Procs :
            (lm[p].ranOnce /\ lm[p].pc = "returned" /\ initFailed # {}) =>
                /\ lm[p].ret.isNil
                /\ lm[p].ret.err.msg = "failed to init module"
                /\ lm[p].ret.err.module \in initFailed)
    /\ [][initFailed # {} => initRuns' = initRuns]_vars

\* the first call has returned the error of a failed Init while another
\* provider, not disabled, was never initialized
FirstLoadFailedSeen ==
    \E p \in Goroutines :
        /\ lm[p].ranOnce /\ lm[p].pc = "returned"
        /\ lm[p].ret.isNil /\ lm[p].ret.err.module \in initFailed
        /\ \E n \in DOMAIN modules : ~Disabled(n, lm[p].cfg) /\ initRuns[n] = 0

\* C10: a LoadModules call made after a call has returned the error of a failed
\* Init returns an error too, and no list.
LoadFailureIsSticky ==
    \A p \in Procs :
        (lm[p].pc = "returned" /\ lm[p].afterFailure) =>
            lm[p].ret.isNil /\ lm[p].ret.err # NoErr

\* C11: a provider that implements Enabled and is not enabled by the
\* configuration of a LoadModules call is not in the list that call returns,
\* and when that call is the one that runs the initialization pass, Init of
\* the provider is never invoked.
DisabledIsSkipped ==
    \A p \in Procs : \A n \in DOMAIN modules :
        (lm[p].pc # "idle" /\ modules[n].toggleable /\ n \notin lm[p].cfg.Enabled) =>
            /\ lm[p].ranOnce => initRuns[n] = 0
            /\ n \notin lm[p].ret.loaded

\* the call that ran the pass has returned a list with an enabled provider
\* and without the disabled one, whose Init was not invoked
DisabledSkippedSeen ==
    \E p \in Goroutines : \E n, k \in DOMAIN modules :
        /\ lm[p].pc = "returned" /\ lm[p].ranOnce /\ ~lm[p].ret.isNil
        /\ modules[n].toggleable /\ n \notin lm[p].cfg.Enabled
        /\ initRuns[n] = 0 /\ n \notin lm[p].ret.loaded
        /\ k \in lm[p].ret.loaded /\ initRuns[k] = 1

\* C12: a name that is in the registry keeps its provider whatever is
\* registered later; a Register that panics leaves the registry as it was,
\* and LoadModules is never called after it.
RegisterKeepsFirst ==
    /\ [](crashed => loads = 0)
    /\ [][(\A n \in DOMAIN modules :
               n \in DOMAIN modules' /\ modules'[n] = modules[n])
           /\ ((crashed' /\ ~crashed) => (modules' = modules))
           /\ ((modules' # modules) => ~crashed')]_vars

\* a second Register of a name has panicked and the first provider is in place
DuplicateRegisterPanicSeen ==
    /\ crashed
    /\ DOMAIN modules # {}
    /\ loads = 0

(***************************************************************************)
(* Properties of the dispatcher (Spec, SpecHandler).                       *)
(***************************************************************************)
\* the answers that, trimmed and lower-cased, read y or yes
Affirmative == {"y\n", "YES\n", " yes \n", "yes"}

\* C1: every invocation a handler takes carries the decision the policy gives
\* at that moment for the handler's module and tool, and when that decision is
\* Deny the handler has returned the error result "tool blocked by policy" with
\* a nil Go error, and HandleCall of the module has not been invoked.
DenyAtCallTimeBlocks ==
    \A w \in Workers :
        calls[w].pc # "idle" =>
            /\ calls[w].decision = Evaluate(toolPolicy, calls[w].module, calls[w].tool)
            /\ calls[w].decision = Deny =>
                  /\ calls[w].pc = "done"
                  /\ ~calls[w].invoked
                  /\ calls[w].result = ToolResultError("tool blocked by policy")
                  /\ ~calls[w].result.goErr

DeniedAtCallTimeSeen ==
    \E w \in Workers :
        /\ calls[w].pc = "done"
        /\ calls[w].decision = Deny
        /\ DenyRule(toolPolicy, calls[w].module, calls[w].tool)
        /\ calls[w].result.isError
        /\ ~calls[w].invoked

\* C2: an invocation whose decision is Confirm reaches HandleCall only after the
\* terminal was opened and the answer was y or yes; when the terminal cannot be
\* opened or the answer is anything else, the handler has returned the error
\* result "tool execution denied by user" and HandleCall has not been invoked.
ConfirmGatesHandleCall ==
    \A w \in Workers :
        calls[w].decision = Confirm =>
            /\ calls[w].pc = "handle" \/ calls[w].invoked =>
                  calls[w].asked /\ calls[w].ttyOk /\ calls[w].line \in Affirmative
            /\ calls[w].asked /\ ~(calls[w].ttyOk /\ calls[w].line \in Affirmative) =>
                  /\ calls[w].pc = "done"
                  /\ ~calls[w].invoked
                  /\ calls[w].result = ToolResultError("tool execution denied by user")
            /\ calls[w].pc = "done" => calls[w].asked

ConfirmedCallInvokedSeen ==
    \E w \in Workers :
        /\ calls[w].decision = Confirm
        /\ calls[w].invoked
        /\ calls[w].line = "YES\n"

\* C7: a descriptor of an active module that the policy denies has no handler
\* registered with the server and does not appear in a response to GET /tools.
DeniedNeverAdvertised ==
    mainPc = "serving" =>
        \A m \in lm["main"].ret.loaded :
            \A t \in GetTools(m) :
                Evaluate(toolPolicy, m, t) = Deny =>
                    /\ <<m, t>> \notin handlers
                    /\ \A e \in toolsResponse.Tools : ~(e.Module = m /\ e.Name = t)

\* C7, amended: a descriptor of an active module that the policy denies has no
\* handler registered with the server, so it is not a callable MCP tool; a
\* response to GET /tools does list it, with the status "denied".
DeniedNotRegisteredButListed ==
    mainPc = "serving" =>
        \A m \in lm["main"].ret.loaded :
            \A t \in GetTools(m) :
                Evaluate(toolPolicy, m, t) = Deny =>
                    /\ <<m, t>> \notin handlers
                    /\ toolsResponse.served =>
                          [Module |-> m, Name |-> t, Status |-> "denied"]
                              \in toolsResponse.Tools

DeniedToolListedSeen ==
    /\ mainPc = "serving"
    /\ toolsResponse.served
    /\ \E e \in toolsResponse.Tools :
          /\ e.Status = "denied"
          /\ e.Module \in lm["main"].ret.loaded
          /\ Evaluate(toolPolicy, e.Module, e.Name) = Deny
          /\ <<e.Module, e.Name>> \notin handlers

(***************************************************************************)
(* Properties of start-up and of the plugins module (Spec, SpecPlugin).    *)
(***************************************************************************)
\* the plugins directory holds a manifest file that does not parse
HasUnparsable(d) == \E i \in DOMAIN d : d[i].manifest = "unparsable"

\* the tool specs of the manifests that parse: <<entry, tool>> positions
SpecPositions(d) ==
    { pos \in (DOMAIN d) \X (1..3) :
          d[pos[1]].manifest = "ok" /\ pos[2] \in DOMAIN d[pos[1]].tools }

\* the name of the manifest of an entry: metadata.name, or that of the directory
ManifestNameOf(e) == IF e.metaName = "" THEN e.dir ELSE e.metaName

\* plugin/<manifest-name>/<tool-name> of a position
QualifiedToolName(d, pos) ==
    "plugin/" \o ManifestNameOf(d[pos[1]]) \o "/" \o d[pos[1]].tools[pos[2]].Name

\* two tool specs of the directory resolve to one qualified name
Collides(d) ==
    \E a, b \in SpecPositions(d) :
        a # b /\ QualifiedToolName(d, a) = QualifiedToolName(d, b)

\* Init of the plugins module has run and returned
PluginsInitDone ==
    /\ initRuns["plugins"] = 1
    /\ \A p \in Procs : ~(lm[p].pc = "init" /\ lm[p].cur = "plugins")

SafeModeRefusesPluginTool ==
    \A w \in Workers :
        ( /\ calls[w].invoked
          /\ calls[w].module = "plugins"
          /\ calls[w].tool \in DOMAIN pluginTools
          /\ mainCfg.SafeMode
          /\ ~pluginTools[calls[w].tool].tool.ReadOnly ) =>
            /\ calls[w].pc = "done"
            /\ calls[w].child = "none"
            /\ calls[w].result = ToolResultError("tool blocked in safe mode")

\* a tool that is not read-only was refused in safe mode after the policy had
\* asked for a confirmation and the person had agreed
ConfirmedToolRefusedSeen ==
    \E w \in Workers :
        /\ calls[w].invoked /\ calls[w].decision = Confirm /\ calls[w].asked
        /\ calls[w].module = "plugins" /\ mainCfg.SafeMode
        /\ calls[w].tool \in DOMAIN pluginTools
        /\ ~pluginTools[calls[w].tool].tool.ReadOnly
        /\ calls[w].result.text = "tool blocked in safe mode"
        /\ calls[w].child = "none"

\* C15: when the plugins directory holds a manifest that does not parse and
\* the plugins module is enabled, Init of the module fails and with it the
\* LoadModules call of main.
UnparsableManifestFailsInit ==
    ( /\ HasUnparsable(disk)
      /\ "plugins" \in mainCfg.Enabled
      /\ lm["main"].pc = "returned" ) =>
        /\ "plugins" \in initFailed
        /\ lm["main"].ret.err # NoErr

\* C16: once Init of the plugins module has returned for manifests that all
\* parse, it has failed, with a duplicate-tool error, exactly when two tool
\* specs resolve to one qualified name; after a successful Init the tool table
\* holds every qualified name once, with the manifest and the spec it is from.
DuplicateToolFailsInit ==
    (PluginsInitDone /\ ~HasUnparsable(disk)) =>
        /\ "plugins" \in initFailed <=> Collides(disk)
        /\ "plugins" \in initFailed =>
              \A p \in Procs : lm[p].ranOnce /\ lm[p].pc \in {"check", "returned"} =>
                  \E pos \in SpecPositions(disk) :
                      lm[p].loadErr.cause =
                          "duplicate plugin tool name: " \o QualifiedToolName(disk, pos)
        /\ "plugins" \notin initFailed =>
              /\ DOMAIN pluginTools =
                     { QualifiedToolName(disk, pos) : pos \in SpecPositions(disk) }
              /\ Cardinality(DOMAIN pluginTools) = Cardinality(SpecPositions(disk))
              /\ \A pos \in SpecPositions(disk) :
                    LET pt == pluginTools[QualifiedToolName(disk, pos)]
                    IN  /\ pt.manifest.Name = ManifestNameOf(disk[pos[1]])
                        /\ pt.tool = disk[pos[1]].tools[pos[2]]

\* Init has failed on two manifests of one name that declare the same tool
DuplicateAcrossManifestsSeen ==
    /\ PluginsInitDone
    /\ "plugins" \in initFailed
    /\ Len(disk) = 2
    /\ \E a, b \in SpecPositions(disk) :
          a[1] # b[1] /\ QualifiedToolName(disk, a) = QualifiedToolName(disk, b)

\* body is output without the white space at its two ends
IsTrimmed(body, output) ==
    \E a \in 1..(Len(output) + 1) : \E b \in 0..Len(output) :
        /\ body = SubSeq(output, a, b)
        /\ \A i \in (1..(a - 1)) \cup ((b + 1)..Len(output)) : output[i] \in {" ", "\n"}
        /\ body # <<>> => body[1] \notin {" ", "\n"} /\ body[Len(body)] \notin {" ", "\n"}

\* C17: a plugin call whose process could not be started, exited with a
\* nonzero status or was killed has returned an error result that carries the
\* error of the process and its output without the surrounding white space,
\* with a nil Go error; the host has not crashed.
PluginFailureIsResult ==
    \A w \in Workers :
        ( /\ calls[w].pc = "done"
          /\ \/ calls[w].child \in {"notStarted", "killed"}
             \/ calls[w].child = "exited" /\ calls[w].exitCode # 0 ) =>
            /\ ~calls[w].result.isNil
            /\ calls[w].result.isError
            /\ ~calls[w].result.goErr
            /\ calls[w].result.text = "plugin error"
            /\ calls[w].result.detail \in
                   {"start failed", "context canceled", "exit status 1", "signal: killed"}
            /\ IsTrimmed(calls[w].result.body, calls[w].output)
            /\ ~crashed

\* a process that wrote white space around its output has exited with status 1
FailedPluginTrimmedSeen ==
    \E w \in Workers :
        /\ calls[w].pc = "done" /\ calls[w].child = "exited" /\ calls[w].exitCode = 1
        /\ calls[w].output = <<"\n", "a", "\n">>
        /\ calls[w].result.body = <<"a">>
        /\ calls[w].result.isError

\* C18: for a plugin call that succeeded with n bytes of output under a
\* maximum m > 0, the result is the output itself when n <= m, and when n > m
\* its first m bytes followed by the marker "\n... truncated".
TruncationIsExact ==
    \A w \in Workers :
        ( /\ calls[w].pc = "done"
          /\ calls[w].child = "exited" /\ calls[w].exitCode = 0
          /\ mainCfg.MaxBytes > 0 ) =>
            LET n == Len(calls[w].output)
                m == mainCfg.MaxBytes
                body == calls[w].result.body
            IN  /\ ~calls[w].result.isError
                /\ n <= m => body = calls[w].output
                /\ n > m =>
                      /\ Len(body) = m + 14
                      /\ \A i \in 1..m : body[i] = calls[w].output[i]
                      /\ \A i \in 1..14 : body[m + i] = TruncationMarker[i]

\* an output one byte over the maximum was cut
OneByteOverTruncatedSeen ==
    \E w \in Workers :
        /\ calls[w].pc = "done" /\ calls[w].child = "exited" /\ calls[w].exitCode = 0
        /\ mainCfg.MaxBytes > 0
        /\ Len(calls[w].output) = mainCfg.MaxBytes + 1
        /\ Len(calls[w].result.body) = mainCfg.MaxBytes + 14

\* the last value Modules.Plugins.Env gives a key
AllowlistValue(env, k) ==
    env[CHOOSE i \in DOMAIN env :
            env[i][1] = k /\ \A j \in DOMAIN env : env[j][1] = k => j <= i][2]

\* C19: the environment of a plugin's process holds the keys of
\* Modules.Plugins.Env and of the manifest's env and no other, each with the
\* value of the manifest when it sets the key and else with that of
\* Modules.Plugins.Env.
ChildEnvIsComposed ==
    \A w \in Workers :
        calls[w].child \in {"running", "exited", "killed"} =>
            LET allow == mainCfg.PluginsEnv
                menv == pluginTools[calls[w].tool].manifest.Env
            IN  /\ DOMAIN calls[w].childEnv =
                       { allow[i][1] : i \in DOMAIN allow } \cup DOMAIN menv
                /\ \A k \in DOMAIN calls[w].childEnv :
                      calls[w].childEnv[k] =
                          IF k \in DOMAIN menv THEN menv[k] ELSE AllowlistValue(allow, k)

DomainErrorsAreResults ==
    \A w \in Workers :
        ( /\ calls[w].pc = "done"
          /\ calls[w].invoked
          /\ \/ calls[w].backend \in {"unreachable", "status404"} /\ calls[w].query # ""
             \/ calls[w].child = "exited" /\ calls[w].exitCode # 0 ) =>
            /\ ~calls[w].result.isNil
            /\ calls[w].result.isError
            /\ ~calls[w].result.goErr

(***************************************************************************)
(* Properties of the registry under concurrent registration (SpecRace).    *)
(***************************************************************************)
\* C25: no goroutine writes the provider map while another goroutine ranges
\* over it: every range and every write happen under mu, which keeps them
\* apart.
MapAccessUnderLock ==
    [][modules' # modules => Ranging = {}]_vars

\* C26: the list a LoadModules call returns holds the registered providers
\* that the configuration of that call does not disable, whether their Init has
\* run or not, and once the initialization pass is over no Init runs any more:
\* a provider that the first call's configuration disabled and a later call's
\* configuration enables is in the later call's list, and its Init never runs.
EnablementIsFresh ==
    /\ [](\A p \in Procs :
            (lm[p].pc = "returned" /\ ~lm[p].ret.isNil) =>
                \A n \in DOMAIN modules :
                    n \in lm[p].ret.loaded <=>
                        ~(modules[n].toggleable /\ n \notin lm[p].cfg.Enabled))
    /\ [][loadOnce = "done" => initRuns' = initRuns]_vars

\* the pass is over without a failure and without Init of a provider that can
\* be disabled, and a later call has returned that provider
EnabledLaterWithoutInitSeen ==
    \E p \in Procs : \E n \in DOMAIN modules :
        /\ lm[p].pc = "returned" /\ ~lm[p].ranOnce
        /\ loadOnce = "done" /\ initFailed = {}
        /\ modules[n].toggleable
        /\ initRuns[n] = 0
        /\ n \in lm[p].ret.loaded
        /\ \E c \in loadCfgs : n \notin c.Enabled

\* C27: the executable of a plugin call whose command is not an absolute path
\* is looked up in the subdirectory of the plugins directory that the tool's
\* manifest was loaded from.
CommandInManifestDir ==
    \A w \in Workers :
        ( /\ calls[w].child # "none"
          /\ ~IsAbs(pluginTools[calls[w].tool].manifest.Command) ) =>
            \E i \in DOMAIN disk :
                /\ disk[i].manifest = "ok"
                /\ ManifestNameOf(disk[i]) = pluginTools[calls[w].tool].manifest.Name
                /\ calls[w].cmdPath =
                       "plugins" \o "/" \o disk[i].dir \o "/" \o disk[i].command

\* C28: Install acts by the kind of its source: a directory is copied, a file
\* named .zip is unzipped, a file named .tar.gz or .tgz is unpacked as a
\* gzip-compressed tar, any other file is copied; and a downloaded source is
\* treated as a local file of the name the URL has.
InstallActsBySourceKind ==
    ( /\ install.pc = "done" /\ install.err = ""
      /\ install.source = ToLower(install.source) ) =>
        install.action =
            IF install.localPath = install.source /\ install.kind = "dir" THEN "copyDir"
            ELSE IF HasSuffix(install.source, DotZip) THEN "unzip"
            ELSE IF \/ HasSuffix(install.source, DotTarGz)
                    \/ HasSuffix(install.source, DotTgz) THEN "untarGz"
            ELSE "copyFile"

\* C29: a LoadModules call that returns a list returns it after the
\* initialization pass has ended, with no Init call under way, and a caller
\* that found the pass running in another goroutine stays blocked until the
\* pass has ended.
NoListBeforeInitPassEnds ==
    /\ [](\A p \in Procs :
            (lm[p].pc = "returned" /\ ~lm[p].ret.isNil) =>
                loadOnce = "done" /\ Ranging = {})
    /\ [][\A p \in Procs :
            (lm[p].pc = "blocked" /\ lm'[p].pc # "blocked") => loadOnce = "done"]_vars

WaitedForInitPassSeen ==
    \E p, q \in Procs :
        /\ p # q
        /\ lm[q].ranOnce /\ \E name \in ModuleNames : initRuns[name] > 0
        /\ lm[p].waited /\ ~lm[p].ranOnce
        /\ lm[p].pc = "returned" /\ ~lm[p].ret.isNil /\ lm[p].ret.loaded # {}

\* C30: after main has read its flags and its configuration, safe mode is on
\* exactly when the configuration LoadConfig returned has it on or --safe-mode
\* is set, so the flag never turns it off; and the Policy Engine and the
\* plugins provider work with that value.
SafeModeOnlyTurnedOn ==
    /\ [][\A file \in ConfigFiles, safeModeFlag \in BOOLEAN, transport \in {"stdio", "sse"} :
            MainStart(file, safeModeFlag, transport) =>
                (mainCfg'.SafeMode <=> (LoadConfig(file).cfg.SafeMode \/ safeModeFlag))]_vars
    /\ []((mainPc \in {"loadModules", "serving", "exited"} /\ safeMode) => mainCfg.SafeMode)
    /\ [](mainPc = "serving" =>
            /\ toolPolicy.safeMode <=> mainCfg.SafeMode
            /\ ~modCfg["plugins"].isNil =>
                  (modCfg["plugins"].cfg.SafeMode <=> mainCfg.SafeMode))

SafeModeForcedByFlagSeen ==
    /\ mainPc = "serving"
    /\ safeMode /\ configErr = ""
    /\ toolPolicy.safeMode
    /\ ~modCfg["plugins"].isNil /\ modCfg["plugins"].cfg.SafeMode
    /\ \E w \in Workers :
          /\ calls[w].pc = "done" /\ calls[w].module = "plugins"
          /\ calls[w].result.text = "tool blocked in safe mode"

\* C24: when LoadConfig has returned an error, the configuration main goes on
\* with is the default configuration, safe mode on, and a server that serves
\* with it has a policy in safe mode.
ConfigErrorMeansDefaults ==
    (mainPc # "init" /\ configErr # "") =>
        /\ mainCfg = DefaultConfig
        /\ mainCfg.SafeMode
        /\ mainPc = "serving" => toolPolicy.safeMode

(***************************************************************************)
(* Properties of the log tools (SpecLogs).                                 *)
(***************************************************************************)
\* the components of root, then zero or more components: path is root or lies
\* beneath it
AtOrBeneath(path, root) == Len(root) <= Len(path) /\ SubSeq(path, 1, Len(root)) = root

\* C23: a log tool has read a file only when the file is the one the path
\* resolves to, links followed, and it is, or lies beneath, what some entry of
\* allow_paths resolves to; with no entry in allow_paths it has read nothing and
\* returned an error result.
LogsReadOnlyUnderRoots ==
    logsCall.pc = "done" =>
        /\ logsCall.read.ok =>
              /\ ~logsCall.isError
              /\ EvalSymlinks(Abs(logsCall.path)).ok
              /\ logsCall.read.path = EvalSymlinks(Abs(logsCall.path)).path
              /\ LogFS[logsCall.read.path].kind = "file"
              /\ \E i \in DOMAIN logsCall.allowPaths :
                    LET root == EvalSymlinks(Abs(logsCall.allowPaths[i]))
                    IN  root.ok /\ AtOrBeneath(logsCall.read.path, root.path)
        /\ logsCall.allowPaths = <<>> => logsCall.isError /\ ~logsCall.read.ok
        /\ ~logsCall.read.ok => logsCall.isError

\* /l2/a, whose name begins like that of the one root /l, was refused
PrefixSharingPathRefusedSeen ==
    /\ logsCall.pc = "done"
    /\ logsCall.allowPaths = << [abs |-> TRUE, comps |-> <<"l">>] >>
    /\ EvalSymlinks(Abs(logsCall.path)).path = <<"l2", "a">>
    /\ logsCall.isError /\ logsCall.text = "log path not allowed"
    /\ ~logsCall.read.ok

(***************************************************************************)
(* Properties of the confirmation prompt under cancellation (SpecConfirm). *)
(***************************************************************************)
\* C21: a handler whose request is cancelled while it waits for the answer at
\* the confirmation prompt returns, and HandleCall of the module has not been
\* invoked by it.
CancelEndsConfirmation ==
    \A w \in Workers :
        (calls[w].pc = "confirm" /\ calls[w].cancelled) ~>
            (calls[w].pc = "done" /\ ~calls[w].invoked)

====
